---- MODULE Spec2Model ----
(***************************************************************************)
(* Chain event ingestion pipeline of uttc-hack-back-onchain.               *)
(*                                                                         *)
(* The usecase (src/Dockerfile, package usecase) runs a backfill goroutine *)
(* (StartEventListener) and then the backoff-supervised reconnect loop     *)
(* (startRealtimeListener); every event goes through handleEvent and       *)
(* notifyBackend.  The gateway (src/main.go, package contract) provides    *)
(* ScanPastEvents, SubscribeEvents (WebSocket forwarding goroutine or the  *)
(* pollEvents fallback) and parseLog.                                      *)
(*                                                                         *)
(* Goroutines: "bf" the goroutine of StartEventListener, "sc" the          *)
(* goroutine of ScanPastEvents, "rl" startRealtimeListener, "pr" the       *)
(* producer of the live session (WebSocket forwarder or pollEvents).       *)
(* The node, the backend and the context's owner are the environment.      *)
(***************************************************************************)
EXTENDS Integers, Sequences, FiniteSets, TLC

VARIABLES
    head,               \* number of the chain's latest block
    chain,              \* chain[b]: the logs block b holds once it is mined
    cancelled,          \* ctx.Done() is closed
    pc,                 \* position of each goroutine
    pastEvents,         \* buffered channel made by ScanPastEvents
    pastClosed,         \* how many times close(pastEvents) happened
    scanFrom,           \* actualFromBlock of the scan goroutine
    scanTo,             \* actualToBlock of the scan goroutine (NoBlock: not set)
    scanLogs,           \* logs the scan goroutine has still to go through
    bfLastBlock,        \* lastProcessedBlock of StartEventListener
    retryDelay,         \* retryDelay of startRealtimeListener (seconds)
    header,             \* head seen by SubscribeEvents' connectivity check
    eventChan,          \* buffered channel made by the last SubscribeEvents
    eventClosed,        \* how many times close(eventChan) happened
    mode,               \* live session: "none", "ws" or "poll"
    subActive,          \* the node-side log subscription is open
    wsLogs,             \* logs the node pushed that the forwarder has not read
    startBlock,         \* startBlock of pollEvents
    lastProcessedBlock, \* cursor of pollEvents
    currentBlock,       \* head seen by the current polling tick
    pollLogs,           \* logs of the current tick still to go through
    ev,                 \* event each consumer is handling
    request,            \* endpoint and payload handleEvent gave notifyBackend
    att,                \* loop index i of notifyBackend, per consumer
    lastCode,           \* history: answer to the latest POST of the current call
    posts,              \* history: POSTs made by the current call
    result,             \* history: how the current notifyBackend call returned
    waits,              \* history: the delays the current call slept (seconds)
    notified,           \* history: the handleEvent calls, in order
    failures,           \* history: failures since the last successful subscribe
    lastWait,           \* history: the backoff delay last waited out
    cancelAt,           \* history: where the listener was when ctx was cancelled
    subscribedAfterCancel, \* history: SubscribeEvents was entered with ctx done
    queries,            \* history: the FilterLogs ranges of the current pollEvents
    rawLog,             \* decoder runs: the types.Log handed to the decoder
    decoded,            \* decoder runs: what parseLog returned, per gateway file
    forwarded,          \* decoder runs: what a forwarding loop sent, per file
    handled,            \* decoder runs: what handleEvent made of the sent event
    scanCall,           \* range runs: the arguments of one ScanPastEvents call
    scanRange,          \* range runs: the block range that call queries
    txCall,             \* verification runs: the function called and its arguments
    txPc,               \* verification runs: where the call is
    txFound,            \* verification runs: what TransactionByHash returned
    txReceipt,          \* verification runs: what TransactionReceipt returned
    txCalls,            \* verification runs: the requests made to the node, in order
    txOut,              \* verification runs: what the call returned
    startPc,            \* where the caller of StartEventListener is
    startErr,           \* the error StartEventListener returned
    cpCall,             \* payment runs: the arguments of one ConfirmPayment call
    cpPc,               \* payment runs: where the call is
    cpPrice,            \* payment runs: priceYen, what GetProductPrice returned
    cpOut               \* payment runs: what the call returned

pipeVars == <<head, chain, cancelled, pc, pastEvents, pastClosed, scanFrom, scanTo,
          scanLogs, bfLastBlock, retryDelay, header, eventChan, eventClosed,
          mode, subActive, wsLogs, startBlock, lastProcessedBlock, currentBlock,
          pollLogs, ev, request, att, lastCode, posts, result, waits, notified,
          failures,
          lastWait, cancelAt, subscribedAfterCancel, queries>>

decVars == <<rawLog, decoded, forwarded, handled>>

scanRunVars == <<scanCall, scanRange>>

\* The variables of the runs of single functions, which the pipeline leaves
\* alone.
verifyVars == <<txCall, txPc, txFound, txReceipt, txCalls, txOut>>

\* The call of StartEventListener, seen from its caller.
startVars == <<startPc, startErr>>

\* The variables of one ConfirmPayment call.
confirmVars == <<cpCall, cpPc, cpPrice, cpOut>>

runVars == <<decVars, scanRunVars, verifyVars, startVars, confirmVars>>

vars == <<pipeVars, runVars>>

chainVars == <<head, chain>>
scanVars == <<pastEvents, pastClosed, scanFrom, scanTo, scanLogs>>
liveVars == <<header, eventChan, eventClosed, mode, subActive, startBlock,
              lastProcessedBlock, currentBlock, pollLogs>>
notifyVars == <<ev, request, att, lastCode, posts, result, waits, notified>>
histVars == <<failures, lastWait, cancelAt, subscribedAfterCancel>>

\* ------------------------------------------------------------------ bounds

\* Blocks the chain may grow to.
MaxBlock == 3

\* Saturation point of the history counter `failures` (the delay is at the
\* ceiling from the fourth failure on).
MaxFailures == 6

\* --------------------------------------------------------- program constants

InitialRetryDelay == 5
maxRetryDelay == 60
\* Mutant: one attempt more.
maxRetries_Four == 3 + 1

maxRetries == 3
ChanCap == 100
ScanWindow == 10000

\* A nil *uint64 (toBlock), and a block number not set yet.
NoBlock == -1

Nil == [kind |-> "nil"]

\* The configured contract address and another contract's address.
ContractAddress == "marketplace"
OtherAddress == "other"

EventTypes == {"ItemListed", "ItemPurchased", "ItemUpdated", "ItemCancelled",
               "ReceiptConfirmed"}

\* A *big.Int: nil, or a natural number held as its decimal digits, the most
\* significant first and none for zero.
BigInt(digits) == [isNil |-> FALSE, digits |-> digits]
BigZero == BigInt(<<>>)

\* The price the logs of the chain carry: 1000000000000000 wei (0.001 ETH).
PriceWei == BigInt(<<1>> \o [i \in 1..15 |-> 0])

\* The data payload of a log, as UnpackIntoMap sees it: whether it unpacks,
\* and the values it then yields. The other string fields of the ABI
\* (explanation, imageUrl, uid, category) and the timestamps are read exactly
\* where title is.
ValidData == [valid |-> TRUE, price |-> PriceWei, title |-> "Widget", tokenId |-> 3]
InvalidData == [valid |-> FALSE, price |-> BigZero, title |-> "", tokenId |-> 0]

\* What one block may hold: nothing; one log of the contract; or a log of
\* another contract, a log of the contract whose topic 0 is no signature of
\* the ABI, a log of the contract without topics, and a log of the contract,
\* in that order.
BlockContents ==
    << << [addr |-> ContractAddress, data |-> ValidData,
           topics |-> <<"ItemListed", 7, 3, 171>>] >>,
       << [addr |-> OtherAddress, data |-> ValidData,
           topics |-> <<"ItemListed", 7, 3, 171>>],
          [addr |-> ContractAddress, data |-> ValidData,
           topics |-> <<"Transfer">>],
          [addr |-> ContractAddress, data |-> ValidData, topics |-> <<>>],
          [addr |-> ContractAddress, data |-> ValidData,
           topics |-> <<"ItemPurchased", 7, 187>>] >>,
       <<>> >>

\* The chains the node may serve: block b holds the (b + k)-th content, in
\* rotation, for a k fixed per run.
Chains ==
    { [b \in 1..MaxBlock |-> BlockContents[((b + k) % Len(BlockContents)) + 1]] :
        k \in 0..(Len(BlockContents) - 1) }

\* The logs of block b, whose content is c, as the node reports them.
LogsOf(b, c) ==
    [k \in 1..Len(c) |->
        [addr |-> c[k].addr, topics |-> c[k].topics, data |-> c[k].data,
         block |-> b, idx |-> k]]

BlockLogs(b) == LogsOf(b, chain[b])

RECURSIVE RangeLogs(_, _)
\* FilterLogs over the inclusive block range [from, to]: block number, then
\* log index, ascending.
RangeLogs(from, to) ==
    IF from > to \/ from > head THEN <<>>
    ELSE IF from < 1 THEN RangeLogs(1, to)
    ELSE BlockLogs(from) \o RangeLogs(from + 1, to)

\* An RPC made with ctx fails once ctx is cancelled; otherwise the node may
\* answer or fail.
RpcOutcomes == IF cancelled THEN {FALSE} ELSE BOOLEAN

\* ----------------------------------------------------------------- decoder

\* A nil *big.Int (ContractEvent.Price left unset).
NilPrice == [isNil |-> TRUE, digits |-> <<>>]

\* The ContractEvent every parse function starts from: Type, TxHash (block
\* and log index stand for the transaction hash) and BlockNo set, every
\* other field at its zero value.
NewEvent(kind, vLog) ==
    [kind |-> kind, txHash |-> <<vLog.block, vLog.idx>>, block |-> vLog.block,
     ItemId |-> 0, TokenId |-> 0, Seller |-> "", Buyer |-> "",
     Price |-> NilPrice, Title |-> ""]

\* common.HexToAddress(topic.Hex()).Hex(): the address a topic holds, as a
\* string.
AddressHex(topic) == ToString(topic)

\* len(vLog.Topics) >= n
HasTopics(vLog, n) == Len(vLog.topics) >= n

\* UnpackIntoMap(data, name, vLog.Data) returns no error.
Unpacks(vLog) == vLog.data.valid

parseItemListed(vLog) ==
    LET event == NewEvent("ItemListed", vLog)
        indexed == IF HasTopics(vLog, 4)
                   THEN [event EXCEPT !.ItemId = vLog.topics[2],
                                      !.TokenId = vLog.topics[3],
                                      !.Seller = AddressHex(vLog.topics[4])]
                   ELSE event
    IN  IF ~Unpacks(vLog) THEN indexed
        ELSE [indexed EXCEPT !.Title = vLog.data.title,
                             !.Price = vLog.data.price]

parseItemPurchased(vLog) ==
    LET event == NewEvent("ItemPurchased", vLog)
        indexed == IF HasTopics(vLog, 3)
                   THEN [event EXCEPT !.ItemId = vLog.topics[2],
                                      !.Buyer = AddressHex(vLog.topics[3])]
                   ELSE event
    IN  IF ~Unpacks(vLog) THEN indexed
        ELSE [indexed EXCEPT !.Price = vLog.data.price,
                             !.TokenId = vLog.data.tokenId]

parseItemUpdated(vLog) ==
    LET event == NewEvent("ItemUpdated", vLog)
        indexed == IF HasTopics(vLog, 2)
                   THEN [event EXCEPT !.ItemId = vLog.topics[2]]
                   ELSE event
    IN  IF ~Unpacks(vLog) THEN indexed
        ELSE [indexed EXCEPT !.Title = vLog.data.title,
                             !.Price = vLog.data.price]

parseItemCancelled(vLog) ==
    LET event == NewEvent("ItemCancelled", vLog)
    IN  IF HasTopics(vLog, 3)
        THEN [event EXCEPT !.ItemId = vLog.topics[2],
                           !.Seller = AddressHex(vLog.topics[3])]
        ELSE event

parseReceiptConfirmed(vLog) ==
    LET event == NewEvent("ReceiptConfirmed", vLog)
        indexed == IF HasTopics(vLog, 4)
                   THEN [event EXCEPT !.ItemId = vLog.topics[2],
                                      !.Buyer = AddressHex(vLog.topics[3]),
                                      !.Seller = AddressHex(vLog.topics[4])]
                   ELSE event
    IN  IF ~Unpacks(vLog) THEN indexed
        ELSE [indexed EXCEPT !.Price = vLog.data.price]

\* The switch on topic 0 that ends both versions of parseLog.
parseBySignature(vLog) ==
    CASE vLog.topics[1] = "ItemListed" -> parseItemListed(vLog)
      [] vLog.topics[1] = "ItemPurchased" -> parseItemPurchased(vLog)
      [] vLog.topics[1] = "ItemUpdated" -> parseItemUpdated(vLog)
      [] vLog.topics[1] = "ItemCancelled" -> parseItemCancelled(vLog)
      [] vLog.topics[1] = "ReceiptConfirmed" -> parseReceiptConfirmed(vLog)
      [] OTHER -> Nil

\* parseLog of src/main.go.
parseLog(vLog) ==
    IF Len(vLog.topics) = 0 THEN Nil
    ELSE IF vLog.addr # ContractAddress THEN Nil
    ELSE parseBySignature(vLog)

\* What a forwarding loop of src/main.go does with one log: the event to
\* send, or Nil when the log is skipped.
Forwarded(vLog) ==
    IF vLog.addr # ContractAddress THEN Nil ELSE parseLog(vLog)

\* parseLog of src/gateway/contract/gateway.go.
gateway_parseLog(vLog) ==
    IF Len(vLog.topics) = 0 THEN Nil ELSE parseBySignature(vLog)

\* What a forwarding loop of src/gateway/contract/gateway.go does with one
\* log.
gateway_Forwarded(vLog) == gateway_parseLog(vLog)

\* ------------------------------------------------------------- decoder runs

\* The two files that hold a parseLog and the loops that call it.
GatewayFiles == {"main.go", "gateway.go"}

\* The decoder or the loop has not been run on rawLog.
NotRun == [kind |-> "not run"]

\* The topic lists a log may carry: none, or a topic 0 (one of the five
\* signatures or another one) followed by up to three indexed values.
DecoderTopics ==
    {<<>>} \cup
    { SubSeq(<<sig, 7, 3, 171>>, 1, n) :
        sig \in EventTypes \cup {"Transfer"}, n \in 1..4 }

\* The logs the decoder is run on.
DecoderLogs ==
    { [addr |-> a, topics |-> t, data |-> d, block |-> 1, idx |-> 1] :
        a \in {ContractAddress, OtherAddress},
        t \in DecoderTopics,
        d \in {ValidData, InvalidData} }

\* parseLog of file f is called on rawLog.
D_ParseLog(f) ==
    /\ rawLog # Nil
    /\ decoded[f] = NotRun
    /\ decoded' = [decoded EXCEPT ![f] = IF f = "main.go"
                                         THEN parseLog(rawLog)
                                         ELSE gateway_parseLog(rawLog)]
    /\ UNCHANGED <<pipeVars, startVars, confirmVars, verifyVars, scanRunVars, rawLog, forwarded, handled>>

\* A forwarding loop of file f (subscription, polling or scan) gets rawLog
\* from the node.
D_Forward(f) ==
    /\ rawLog # Nil
    /\ forwarded[f] = NotRun
    /\ forwarded' = [forwarded EXCEPT ![f] = IF f = "main.go"
                                             THEN Forwarded(rawLog)
                                             ELSE gateway_Forwarded(rawLog)]
    /\ UNCHANGED <<pipeVars, startVars, confirmVars, verifyVars, scanRunVars, rawLog, decoded, handled>>

\* ---------------------------------------------------------------- notifier

\* Answers to one POST: 0 is a transport error (no response), the others are
\* HTTP status codes.
NetErr == 0
Responses == {NetErr, 101, 200, 302, 404, 500}

\* No POST was answered yet in this call (history).
NoCode == -1

\* Mutant: no answer counts as a success.
IsSuccess_Never(code) == FALSE

IsSuccess(code) == code >= 200 /\ code < 300

\* Mutant: a 3xx answer ends the call like a 4xx answer.
IsClientError_Redirect(code) == code >= 300 /\ code < 500

\* Mutant: a 4xx answer is treated like any other failure.
IsClientError_Never(code) == FALSE

IsClientError(code) == code >= 400 /\ code < 500

\* Mutant: every event is posted to the endpoint of listings.
Endpoint_Listed(kind) == "/api/v1/blockchain/item-listed"

\* The endpoint handleEvent posts an event to; "" for an unknown type.
Endpoint(kind) ==
    CASE kind = "ItemListed" -> "/api/v1/blockchain/item-listed"
      [] kind = "ItemPurchased" -> "/api/v1/blockchain/item-purchased"
      [] kind = "ItemUpdated" -> "/api/v1/blockchain/item-updated"
      [] kind = "ItemCancelled" -> "/api/v1/blockchain/item-cancelled"
      [] kind = "ReceiptConfirmed" -> "/api/v1/blockchain/receipt-confirmed"
      [] OTHER -> ""

\* The characters of the decimal digits 0 to 9.
DigitChars == <<"0", "1", "2", "3", "4", "5", "6", "7", "8", "9">>

\* (*big.Int).String(): the base-10 text of x as a sequence of characters,
\* "0" for zero and "<nil>" for a nil pointer.
BigString(x) ==
    IF x.isNil THEN <<"<", "n", "i", "l", ">">>
    ELSE IF x.digits = <<>> THEN <<"0">>
    ELSE [i \in 1..Len(x.digits) |-> DigitChars[x.digits[i] + 1]]

\* The payload handleEvent builds for an event of a known type. Numbers stay
\* numbers (JSON numbers), strings are strings and price_wei is the text of
\* Price; explanation, image_url, uid, category and the timestamps are
\* copied like title.
Payload(event) ==
    CASE event.kind = "ItemListed" ->
            [chain_item_id |-> event.ItemId, token_id |-> event.TokenId,
             title |-> event.Title, price_wei |-> BigString(event.Price),
             seller |-> event.Seller, tx_hash |-> event.txHash]
      [] event.kind = "ItemPurchased" ->
            [chain_item_id |-> event.ItemId, buyer |-> event.Buyer,
             price_wei |-> BigString(event.Price), token_id |-> event.TokenId,
             tx_hash |-> event.txHash]
      [] event.kind = "ItemUpdated" ->
            [chain_item_id |-> event.ItemId, title |-> event.Title,
             price_wei |-> BigString(event.Price), tx_hash |-> event.txHash]
      [] event.kind = "ItemCancelled" ->
            [chain_item_id |-> event.ItemId, seller |-> event.Seller,
             tx_hash |-> event.txHash]
      [] event.kind = "ReceiptConfirmed" ->
            [chain_item_id |-> event.ItemId, buyer |-> event.Buyer,
             seller |-> event.Seller, price_wei |-> BigString(event.Price),
             tx_hash |-> event.txHash]

\* What handleEvent hands to notifyBackend for an event: the endpoint and the
\* payload, or Nil when it returns on an unknown type.
Request(event) ==
    IF Endpoint(event.kind) = "" THEN Nil
    ELSE [path |-> Endpoint(event.kind), body |-> Payload(event)]

\* The consumer of file f's channel takes the event the loop sent and
\* handleEvent builds its request.
D_Handle(f) ==
    /\ forwarded[f] # NotRun
    /\ handled[f] = NotRun
    /\ handled' = [handled EXCEPT ![f] = IF forwarded[f] = Nil THEN Nil
                                         ELSE Request(forwarded[f])]
    /\ UNCHANGED <<pipeVars, startVars, confirmVars, verifyVars, scanRunVars, rawLog, decoded, forwarded>>

Consumers == {"bf", "rl"}

\* handleEvent(event) up to its call of notifyBackend, in consumer p.
handleEvent(p, event) ==
    /\ notified' = Append(notified, [tx |-> event.txHash, by |-> p])
    /\ ev' = [ev EXCEPT ![p] = event]
    /\ request' = [request EXCEPT ![p] = Request(event)]
    /\ lastCode' = [lastCode EXCEPT ![p] = NoCode]
    /\ posts' = [posts EXCEPT ![p] = 0]
    /\ att' = [att EXCEPT ![p] = 0]
    /\ waits' = [waits EXCEPT ![p] = <<>>]
    /\ IF Endpoint(event.kind) = ""
       THEN /\ result' = [result EXCEPT ![p] = "unknown"]
            /\ pc' = [pc EXCEPT ![p] = "handled"]
       ELSE /\ result' = [result EXCEPT ![p] = "none"]
            /\ pc' = [pc EXCEPT ![p] = "post"]

\* notifyBackend returns r in consumer p.
Return(p, r) ==
    /\ result' = [result EXCEPT ![p] = r]
    /\ pc' = [pc EXCEPT ![p] = "handled"]
    /\ att' = att

\* The end of one iteration of notifyBackend's loop without a return:
\* i++, then sleep before the next attempt or leave the loop and return
\* "failed after 3 retries".
NextAttempt(p) ==
    /\ att' = [att EXCEPT ![p] = att[p] + 1]
    /\ IF att[p] + 1 < maxRetries
       THEN /\ pc' = [pc EXCEPT ![p] = "sleep"]
            /\ result' = result
       ELSE /\ pc' = [pc EXCEPT ![p] = "handled"]
            /\ result' = [result EXCEPT ![p] = "exhausted"]

\* One client.Post of notifyBackend and what follows from its answer.
Post(p) ==
    /\ pc[p] = "post"
    /\ \E code \in Responses :
        /\ lastCode' = [lastCode EXCEPT ![p] = code]
        /\ posts' = [posts EXCEPT ![p] = posts[p] + 1]
        /\ IF code = NetErr THEN NextAttempt(p)
           ELSE IF IsSuccess(code) THEN Return(p, "ok")
           ELSE IF IsClientError(code) THEN Return(p, "permanent")
           ELSE NextAttempt(p)
    /\ UNCHANGED <<runVars, queries, chainVars, cancelled, scanVars, bfLastBlock, retryDelay,
                   liveVars, wsLogs, ev, request, waits, notified, histVars>>

\* Mutant: every wait is the base unit.
WaitTime_Const(i) == 1

\* waitTime of notifyBackend before attempt i, in seconds:
\* time.Duration(i) * time.Second.
WaitTime(i) == i * 1

\* time.Sleep(waitTime) before attempt i > 0 of notifyBackend.
Sleep(p) ==
    /\ pc[p] = "sleep"
    /\ pc' = [pc EXCEPT ![p] = "post"]
    /\ waits' = [waits EXCEPT ![p] = Append(waits[p], WaitTime(att[p]))]
    /\ UNCHANGED <<runVars, queries, chainVars, cancelled, scanVars, bfLastBlock, retryDelay,
                   liveVars, wsLogs, ev, request, att, lastCode, posts,
                   result, notified, histVars>>

\* Mutant: an error of notifyBackend ends the consumer's loop.
HandleReturn_Halt(p) ==
    /\ pc[p] = "handled"
    /\ pc' = [pc EXCEPT ![p] = IF result[p] \in {"permanent", "exhausted"}
                               THEN "returned" ELSE "range"]
    /\ ev' = [ev EXCEPT ![p] = Nil]
    /\ request' = [request EXCEPT ![p] = Nil]
    /\ att' = [att EXCEPT ![p] = 0]
    /\ lastCode' = [lastCode EXCEPT ![p] = NoCode]
    /\ posts' = [posts EXCEPT ![p] = 0]
    /\ result' = [result EXCEPT ![p] = "none"]
    /\ waits' = [waits EXCEPT ![p] = <<>>]
    /\ UNCHANGED <<runVars, queries, chainVars, cancelled, scanVars, bfLastBlock, retryDelay,
                   liveVars, wsLogs, notified, histVars>>

\* handleEvent logs notifyBackend's error, if any, and returns; the consumer
\* is back at its range loop and the call's locals are gone.
HandleReturn(p) ==
    /\ pc[p] = "handled"
    /\ pc' = [pc EXCEPT ![p] = "range"]
    /\ ev' = [ev EXCEPT ![p] = Nil]
    /\ request' = [request EXCEPT ![p] = Nil]
    /\ att' = [att EXCEPT ![p] = 0]
    /\ lastCode' = [lastCode EXCEPT ![p] = NoCode]
    /\ posts' = [posts EXCEPT ![p] = 0]
    /\ result' = [result EXCEPT ![p] = "none"]
    /\ waits' = [waits EXCEPT ![p] = <<>>]
    /\ UNCHANGED <<runVars, queries, chainVars, cancelled, scanVars, bfLastBlock, retryDelay,
                   liveVars, wsLogs, notified, histVars>>

\* Mutant: the sent event overtakes the ones waiting in the channel.
Enqueue_Front(ch, event) == <<event>> \o ch

\* eventChan <- event on a buffered channel with room: first in, first out.
Enqueue(ch, event) == Append(ch, event)

\* ---------------------------------------------------------- ScanPastEvents

\* Mutant: the window is subtracted whatever the head is (a head below the
\* window makes the uint64 subtraction wrap; a negative number stands for it).
ActualFromBlock_Unguarded(fromBlock, cur) ==
    IF fromBlock = 0 THEN cur - ScanWindow ELSE fromBlock

\* actualFromBlock of ScanPastEvents, the head being currentBlock.
ActualFromBlock(fromBlock, cur) ==
    IF fromBlock = 0
    THEN IF cur > ScanWindow THEN cur - ScanWindow ELSE fromBlock
    ELSE fromBlock

\* actualToBlock of ScanPastEvents.
ActualToBlock(toBlock, cur) == IF toBlock # NoBlock THEN toBlock ELSE cur

\* The lookback window of ScanPastEvents in src/gateway/contract/gateway.go.
gateway_ScanWindow == 1000

\* actualFromBlock of ScanPastEvents in src/gateway/contract/gateway.go.
gateway_ActualFromBlock(fromBlock, cur) ==
    IF fromBlock = 0
    THEN IF cur > gateway_ScanWindow THEN cur - gateway_ScanWindow ELSE fromBlock
    ELSE fromBlock

\* --------------------------------------------------------------- range runs

\* The heads the node may report to a ScanPastEvents call: chains shorter
\* than either window, at and one past each window, and longer ones.
ScanHeads == {0, 1, 999, 1000, 1001, 1002, 9999, 10000, 10001, 10002, 20000,
              20001}

\* The fromBlock arguments (a uint64; 0 asks for the lookback window).
ScanFromArgs == {0, 1, 5000, 10001}

\* The toBlock arguments (a *uint64; NoBlock is nil).
ScanToArgs == {NoBlock, 0, 7, 20000}

\* The goroutine of ScanPastEvents of scanCall.file fixes the range of its
\* FilterQuery from the head scanCall.cur.
SR_Resolve ==
    /\ scanCall # Nil
    /\ scanRange = NotRun
    /\ scanRange' =
          [from |-> IF scanCall.file = "main.go"
                    THEN ActualFromBlock(scanCall.fromBlock, scanCall.cur)
                    ELSE gateway_ActualFromBlock(scanCall.fromBlock, scanCall.cur),
           to |-> ActualToBlock(scanCall.toBlock, scanCall.cur)]
    /\ UNCHANGED <<pipeVars, startVars, confirmVars, verifyVars, decVars, scanCall>>

\* The scan goroutine fetches the latest header and fixes the block range;
\* on failure it logs the error and returns.
SC_Header ==
    /\ pc["sc"] = "header"
    /\ \E ok \in RpcOutcomes :
        IF ok
        THEN /\ scanFrom' = ActualFromBlock(0, head)
             /\ scanTo' = ActualToBlock(NoBlock, head)
             /\ pc' = [pc EXCEPT !["sc"] = "filter"]
        ELSE /\ pc' = [pc EXCEPT !["sc"] = "failed"]
             /\ UNCHANGED <<scanFrom, scanTo>>
    /\ UNCHANGED <<runVars, queries, chainVars, cancelled, pastEvents, pastClosed, scanLogs,
                   bfLastBlock, retryDelay, liveVars, wsLogs, notifyVars,
                   histVars>>

\* The scan goroutine's FilterLogs call; on failure it logs the error and
\* returns.
SC_Filter ==
    /\ pc["sc"] = "filter"
    /\ \E ok \in RpcOutcomes :
        IF ok
        THEN /\ scanLogs' = RangeLogs(scanFrom, scanTo)
             /\ pc' = [pc EXCEPT !["sc"] = "send"]
        ELSE /\ pc' = [pc EXCEPT !["sc"] = "failed"]
             /\ UNCHANGED scanLogs
    /\ UNCHANGED <<runVars, queries, chainVars, cancelled, pastEvents, pastClosed, scanFrom,
                   scanTo, bfLastBlock, retryDelay, liveVars, wsLogs,
                   notifyVars, histVars>>

\* Mutant: the failing return leaves the channel open (no deferred close).
SC_Failed_NoClose ==
    /\ pc["sc"] = "failed"
    /\ pc' = [pc EXCEPT !["sc"] = "done"]
    /\ UNCHANGED <<runVars, queries, chainVars, cancelled, scanVars, bfLastBlock, retryDelay,
                   liveVars, wsLogs, notifyVars, histVars>>

\* The failing return of the scan goroutine runs the deferred
\* close(eventChan).
SC_Failed ==
    /\ pc["sc"] = "failed"
    /\ pastClosed' = pastClosed + 1
    /\ pc' = [pc EXCEPT !["sc"] = "done"]
    /\ UNCHANGED <<runVars, queries, chainVars, cancelled, pastEvents, scanFrom, scanTo,
                   scanLogs, bfLastBlock, retryDelay, liveVars, wsLogs,
                   notifyVars, histVars>>

\* Mutant: the send does not wait, an event is dropped when the consumer has
\* not taken the one before it.
SC_Send_Lossy ==
    /\ pc["sc"] = "send"
    /\ IF scanLogs = <<>>
       THEN /\ pastClosed' = pastClosed + 1
            /\ pc' = [pc EXCEPT !["sc"] = "done"]
            /\ UNCHANGED <<pastEvents, scanLogs>>
       ELSE /\ scanLogs' = Tail(scanLogs)
            /\ IF Forwarded(Head(scanLogs)) = Nil \/ pastEvents # <<>>
               THEN UNCHANGED pastEvents
               ELSE pastEvents' = Enqueue(pastEvents, Forwarded(Head(scanLogs)))
            /\ UNCHANGED <<pastClosed, pc>>
    /\ UNCHANGED <<runVars, queries, chainVars, cancelled, scanFrom, scanTo, bfLastBlock,
                   retryDelay, liveVars, wsLogs, notifyVars, histVars>>

\* One iteration of the scan goroutine's loop over the logs, or its end
\* (the deferred close).
SC_Send ==
    /\ pc["sc"] = "send"
    /\ IF scanLogs = <<>>
       THEN /\ pastClosed' = pastClosed + 1
            /\ pc' = [pc EXCEPT !["sc"] = "done"]
            /\ UNCHANGED <<pastEvents, scanLogs>>
       ELSE /\ scanLogs' = Tail(scanLogs)
            /\ IF Forwarded(Head(scanLogs)) = Nil
               THEN UNCHANGED pastEvents
               ELSE /\ Len(pastEvents) < ChanCap
                    /\ pastEvents' = Enqueue(pastEvents, Forwarded(Head(scanLogs)))
            /\ UNCHANGED <<pastClosed, pc>>
    /\ UNCHANGED <<runVars, queries, chainVars, cancelled, scanFrom, scanTo, bfLastBlock,
                   retryDelay, liveVars, wsLogs, notifyVars, histVars>>

\* -------------------------------------------------------- StartEventListener

\* Mutant: StartEventListener returns once its goroutine is through the past
\* events.
SEL_Return_AfterBackfill ==
    /\ startPc = "log"
    /\ pc["bf"] = "done"
    /\ startPc' = "returned"
    /\ startErr' = "nil"
    /\ UNCHANGED <<pipeVars, decVars, scanRunVars, verifyVars, confirmVars>>

\* After the go statement: log.Println and return nil.
SEL_Return ==
    /\ startPc = "log"
    /\ startPc' = "returned"
    /\ startErr' = "nil"
    /\ UNCHANGED <<pipeVars, decVars, scanRunVars, verifyVars, confirmVars>>

\* Mutant: the realtime listener is started along with the scan instead of
\* after it.
BF_Scan_Early ==
    /\ pc["bf"] = "scan"
    /\ pc' = [pc EXCEPT !["bf"] = "range", !["sc"] = "header", !["rl"] = "top"]
    /\ pastEvents' = <<>>
    /\ pastClosed' = 0
    /\ UNCHANGED <<runVars, queries, chainVars, cancelled, scanFrom, scanTo, scanLogs,
                   bfLastBlock, retryDelay, liveVars, wsLogs, notifyVars,
                   histVars>>

\* The goroutine of StartEventListener calls ScanPastEvents(ctx, 0, nil),
\* which makes the channel, starts the scan goroutine and returns no error.
BF_Scan ==
    /\ pc["bf"] = "scan"
    /\ pc' = [pc EXCEPT !["bf"] = "range", !["sc"] = "header"]
    /\ pastEvents' = <<>>
    /\ pastClosed' = 0
    /\ UNCHANGED <<runVars, queries, chainVars, cancelled, scanFrom, scanTo, scanLogs,
                   bfLastBlock, retryDelay, liveVars, wsLogs, notifyVars,
                   histVars>>

\* for event := range pastEvents: the next event is handled.
BF_Recv ==
    /\ pc["bf"] = "range"
    /\ pastEvents # <<>>
    /\ pastEvents' = Tail(pastEvents)
    /\ handleEvent("bf", Head(pastEvents))
    /\ bfLastBlock' = IF Head(pastEvents).block > bfLastBlock
                      THEN Head(pastEvents).block ELSE bfLastBlock
    /\ UNCHANGED <<runVars, queries, chainVars, cancelled, pastClosed, scanFrom, scanTo,
                   scanLogs, retryDelay, liveVars, wsLogs, histVars>>

\* The range loop ends on the closed, drained channel, and the goroutine
\* starts startRealtimeListener.
BF_Done ==
    /\ pc["bf"] = "range"
    /\ pastEvents = <<>>
    /\ pastClosed > 0
    /\ pc' = [pc EXCEPT !["bf"] = "done", !["rl"] = "top"]
    /\ UNCHANGED <<runVars, queries, chainVars, cancelled, scanVars, bfLastBlock, retryDelay,
                   liveVars, wsLogs, notifyVars, histVars>>

\* ----------------------------------------------------- startRealtimeListener

min(a, b) == IF a < b THEN a ELSE b

\* Mutant: the delay doubles without a ceiling.
NextRetryDelay_Uncapped(d) == d * 2

\* Mutant: the delay grows by the floor instead of doubling.
NextRetryDelay_Linear(d) == min(d + 5, maxRetryDelay)

\* retryDelay after a backoff delay was waited out.
NextRetryDelay(d) == min(d * 2, maxRetryDelay)

\* Mutant: the delay is not reset on a successful subscribe.
ConnectedRetryDelay_Keep(d) == d

\* retryDelay after SubscribeEvents returned a channel.
ConnectedRetryDelay(d) == 5

\* One more failure since the last successful subscribe (history).
CountFailure == IF failures < MaxFailures THEN failures + 1 ELSE failures

\* The head of the reconnect loop: return when ctx is done, otherwise call
\* SubscribeEvents, which makes a new channel.
RL_Top ==
    /\ pc["rl"] = "top"
    /\ IF cancelled
       THEN /\ pc' = [pc EXCEPT !["rl"] = "returned"]
            /\ UNCHANGED subscribedAfterCancel
       ELSE /\ pc' = [pc EXCEPT !["rl"] = "health"]
            /\ subscribedAfterCancel' = (subscribedAfterCancel \/ cancelled)
    /\ UNCHANGED <<runVars, queries, chainVars, cancelled, scanVars, bfLastBlock, retryDelay,
                   liveVars, wsLogs, notifyVars, failures, lastWait, cancelAt>>

\* Mutant: the subscription is opened before the connectivity check, and a
\* failed check returns the error without closing it.
SE_Health_AfterSubscribe ==
    /\ pc["rl"] = "health"
    /\ \E ok \in RpcOutcomes :
        IF ok
        THEN /\ header' = head
             /\ pc' = [pc EXCEPT !["rl"] = "subscribe"]
             /\ UNCHANGED <<failures, subActive>>
        ELSE /\ pc' = [pc EXCEPT !["rl"] = "backoffErr"]
             /\ failures' = CountFailure
             /\ subActive' = TRUE
             /\ UNCHANGED header
    /\ UNCHANGED <<runVars, queries, chainVars, cancelled, scanVars, bfLastBlock, retryDelay,
                   eventChan, eventClosed, mode, wsLogs, startBlock,
                   lastProcessedBlock, currentBlock, pollLogs, notifyVars,
                   lastWait, cancelAt, subscribedAfterCancel>>

\* SubscribeEvents' connectivity check: HeaderByNumber under a 10 s timeout.
\* On failure SubscribeEvents returns an error and the listener enters its
\* backoff wait.
SE_Health ==
    /\ pc["rl"] = "health"
    /\ \E ok \in RpcOutcomes :
        IF ok
        THEN /\ header' = head
             /\ pc' = [pc EXCEPT !["rl"] = "subscribe"]
             /\ UNCHANGED failures
        ELSE /\ pc' = [pc EXCEPT !["rl"] = "backoffErr"]
             /\ failures' = CountFailure
             /\ UNCHANGED header
    /\ UNCHANGED <<runVars, queries, chainVars, cancelled, scanVars, bfLastBlock, retryDelay,
                   eventChan, eventClosed, mode, subActive, wsLogs, startBlock,
                   lastProcessedBlock, currentBlock, pollLogs, notifyVars,
                   lastWait, cancelAt, subscribedAfterCancel>>

\* SubscribeFilterLogs succeeds: the forwarding goroutine is started, the
\* channel is returned and the listener resets its delay.
SE_SubscribeWS ==
    /\ pc["rl"] = "subscribe"
    /\ TRUE \in RpcOutcomes
    /\ mode' = "ws"
    /\ subActive' = TRUE
    /\ wsLogs' = <<>>
    /\ eventChan' = <<>>
    /\ eventClosed' = 0
    /\ retryDelay' = ConnectedRetryDelay(retryDelay)
    /\ failures' = 0
    /\ pc' = [pc EXCEPT !["rl"] = "range", !["pr"] = "select"]
    /\ header' = 0
    /\ UNCHANGED <<runVars, queries, chainVars, cancelled, scanVars, bfLastBlock, startBlock,
                   lastProcessedBlock, currentBlock, pollLogs, notifyVars,
                   lastWait, cancelAt, subscribedAfterCancel>>

\* Mutant: SubscribeEvents returns the error of SubscribeFilterLogs.
SE_SubscribePoll_Error ==
    /\ pc["rl"] = "subscribe"
    /\ FALSE \in RpcOutcomes
    /\ pc' = [pc EXCEPT !["rl"] = "backoffErr"]
    /\ failures' = CountFailure
    /\ header' = 0
    /\ UNCHANGED <<runVars, queries, chainVars, cancelled, scanVars, bfLastBlock, retryDelay,
                   eventChan, eventClosed, mode, subActive, wsLogs, startBlock,
                   lastProcessedBlock, currentBlock, pollLogs, notifyVars,
                   lastWait, cancelAt, subscribedAfterCancel>>

\* SubscribeFilterLogs fails: pollEvents is started from the head the
\* connectivity check saw, the channel is returned without an error and the
\* listener resets its delay.
SE_SubscribePoll ==
    /\ queries' = <<>>
    /\ pc["rl"] = "subscribe"
    /\ FALSE \in RpcOutcomes
    /\ mode' = "poll"
    /\ startBlock' = header
    /\ lastProcessedBlock' = header
    /\ eventChan' = <<>>
    /\ eventClosed' = 0
    /\ retryDelay' = ConnectedRetryDelay(retryDelay)
    /\ failures' = 0
    /\ pc' = [pc EXCEPT !["rl"] = "range", !["pr"] = "wait"]
    /\ header' = 0
    /\ UNCHANGED <<runVars, chainVars, cancelled, scanVars, bfLastBlock,
                   subActive, wsLogs, currentBlock, pollLogs, notifyVars,
                   lastWait, cancelAt, subscribedAfterCancel>>

\* for event := range eventChan: the next event is handled.
RL_Recv ==
    /\ pc["rl"] = "range"
    /\ eventChan # <<>>
    /\ eventChan' = Tail(eventChan)
    /\ handleEvent("rl", Head(eventChan))
    /\ UNCHANGED <<runVars, queries, chainVars, cancelled, scanVars, bfLastBlock, retryDelay,
                   header, eventClosed, mode, subActive, wsLogs, startBlock,
                   lastProcessedBlock, currentBlock, pollLogs, histVars>>

\* The range loop ends on the closed, drained channel: the live stream has
\* terminated and the listener enters its backoff wait.
RL_Closed ==
    /\ pc["rl"] = "range"
    /\ eventChan = <<>>
    /\ eventClosed > 0
    /\ pc' = [pc EXCEPT !["rl"] = "backoffClosed"]
    /\ failures' = CountFailure
    /\ UNCHANGED <<runVars, queries, chainVars, cancelled, scanVars, bfLastBlock, retryDelay,
                   liveVars, wsLogs, notifyVars, lastWait, cancelAt,
                   subscribedAfterCancel>>

\* The backoff select takes case <-ctx.Done().
RL_BackoffCancelled ==
    /\ pc["rl"] \in {"backoffErr", "backoffClosed"}
    /\ cancelled
    /\ pc' = [pc EXCEPT !["rl"] = "returned"]
    /\ UNCHANGED <<runVars, queries, chainVars, cancelled, scanVars, bfLastBlock, retryDelay,
                   liveVars, wsLogs, notifyVars, histVars>>

\* Mutant: the listener gives up after the delay has reached its ceiling.
RL_BackoffElapsed_GiveUp ==
    /\ pc["rl"] \in {"backoffErr", "backoffClosed"}
    /\ lastWait' = retryDelay
    /\ retryDelay' = NextRetryDelay(retryDelay)
    /\ pc' = [pc EXCEPT !["rl"] = IF retryDelay = maxRetryDelay
                                  THEN "returned" ELSE "top"]
    /\ UNCHANGED <<runVars, queries, chainVars, cancelled, scanVars, bfLastBlock, liveVars,
                   wsLogs, notifyVars, failures, cancelAt,
                   subscribedAfterCancel>>

\* The backoff select takes case <-time.After(retryDelay).
RL_BackoffElapsed ==
    /\ pc["rl"] \in {"backoffErr", "backoffClosed"}
    /\ lastWait' = retryDelay
    /\ retryDelay' = NextRetryDelay(retryDelay)
    /\ pc' = [pc EXCEPT !["rl"] = "top"]
    /\ UNCHANGED <<runVars, queries, chainVars, cancelled, scanVars, bfLastBlock, liveVars,
                   wsLogs, notifyVars, failures, cancelAt,
                   subscribedAfterCancel>>

\* ------------------------------------ SubscribeEvents' forwarding goroutine

\* The goroutine returns: sub.Unsubscribe() and close(eventChan), deferred.
WS_Exit ==
    /\ subActive' = FALSE
    /\ eventClosed' = eventClosed + 1
    /\ pc' = [pc EXCEPT !["pr"] = "done"]
    /\ wsLogs' = <<>>
    /\ UNCHANGED <<runVars, queries, chainVars, cancelled, scanVars, bfLastBlock, retryDelay,
                   header, eventChan, mode, startBlock, lastProcessedBlock,
                   currentBlock, pollLogs, notifyVars, histVars>>

\* case <-ctx.Done()
WS_CtxDone ==
    /\ mode = "ws" /\ pc["pr"] = "select"
    /\ cancelled
    /\ WS_Exit

\* case err := <-sub.Err(): the node or the transport ends the subscription.
WS_SubErr ==
    /\ mode = "ws" /\ pc["pr"] = "select"
    /\ WS_Exit

\* case vLog, ok := <-logs with !ok
WS_LogsClosed ==
    /\ mode = "ws" /\ pc["pr"] = "select"
    /\ wsLogs = <<>>
    /\ WS_Exit

\* Mutant: a log that yields no event ends the forwarding goroutine.
WS_Log_Fatal ==
    /\ mode = "ws" /\ pc["pr"] = "select"
    /\ wsLogs # <<>>
    /\ wsLogs' = Tail(wsLogs)
    /\ IF Forwarded(Head(wsLogs)) = Nil
       THEN /\ subActive' = FALSE
            /\ eventClosed' = eventClosed + 1
            /\ pc' = [pc EXCEPT !["pr"] = "done"]
            /\ UNCHANGED eventChan
       ELSE /\ Len(eventChan) < ChanCap
            /\ eventChan' = Enqueue(eventChan, Forwarded(Head(wsLogs)))
            /\ UNCHANGED <<subActive, eventClosed, pc>>
    /\ UNCHANGED <<runVars, queries, chainVars, cancelled, scanVars, bfLastBlock, retryDelay,
                   header, mode, startBlock, lastProcessedBlock, currentBlock,
                   pollLogs, notifyVars, histVars>>

\* case vLog, ok := <-logs with a log: skipped, or parsed and sent.
WS_Log ==
    /\ mode = "ws" /\ pc["pr"] = "select"
    /\ wsLogs # <<>>
    /\ wsLogs' = Tail(wsLogs)
    /\ IF Forwarded(Head(wsLogs)) = Nil
       THEN UNCHANGED eventChan
       ELSE /\ Len(eventChan) < ChanCap
            /\ eventChan' = Enqueue(eventChan, Forwarded(Head(wsLogs)))
    /\ UNCHANGED <<runVars, queries, chainVars, cancelled, scanVars, bfLastBlock, retryDelay,
                   header, eventClosed, mode, subActive, startBlock,
                   lastProcessedBlock, currentBlock, pollLogs, notifyVars,
                   histVars, pc>>

\* ---------------------------------------------------------------- pollEvents

\* Mutant: the tick leaves out the block after the cursor.
PollFrom_Skip(last) == last + 2

\* Mutant: the tick queries the cursor's block again.
PollFrom_Cursor(last) == last

\* Mutant: the query leaves FromBlock out and starts at the first block.
PollFrom_Genesis(last) == 0

\* First block of the range a tick queries.
PollFrom(last) == last + 1

\* Mutant: a failed FilterLogs leaves the cursor where it was.
CursorAfterError_Keep(last, cur) == last

\* lastProcessedBlock after FilterLogs failed for (last, cur].
CursorAfterError(last, cur) == cur

\* case <-ctx.Done(), in the tick select or in the send select: pollEvents
\* returns, and nothing closes the channel.
PL_CtxDone ==
    /\ queries' = <<>>
    /\ mode = "poll"
    /\ \/ pc["pr"] = "wait"
       \/ pc["pr"] = "send" /\ Len(eventChan) >= ChanCap
    /\ cancelled
    /\ pc' = [pc EXCEPT !["pr"] = "done"]
    /\ startBlock' = 0
    /\ lastProcessedBlock' = 0
    /\ currentBlock' = 0
    /\ pollLogs' = <<>>
    /\ UNCHANGED <<runVars, chainVars, cancelled, scanVars, bfLastBlock, retryDelay,
                   header, eventChan, eventClosed, mode, subActive, wsLogs,
                   notifyVars, histVars>>

\* A panic in the body of a tick: the deferred function recovers, closes the
\* channel, and pollEvents returns.
PL_Panic ==
    /\ mode = "poll"
    /\ pc["pr"] \in {"filter", "send"}
    /\ eventClosed' = eventClosed + 1
    /\ pc' = [pc EXCEPT !["pr"] = "done"]
    /\ startBlock' = 0
    /\ lastProcessedBlock' = 0
    /\ currentBlock' = 0
    /\ pollLogs' = <<>>
    /\ queries' = <<>>
    /\ UNCHANGED <<runVars, chainVars, cancelled, scanVars, bfLastBlock, retryDelay,
                   header, eventChan, mode, subActive, wsLogs, notifyVars,
                   histVars>>

\* Mutant: after a failed header fetch the channel is closed and the loop
\* goes on to the next tick.
PL_Tick_CloseAndGoOn ==
    /\ mode = "poll" /\ pc["pr"] = "wait"
    /\ \E ok \in RpcOutcomes :
        IF ok
        THEN IF head <= lastProcessedBlock
             THEN UNCHANGED <<currentBlock, pc, eventClosed>>
             ELSE /\ currentBlock' = head
                  /\ pc' = [pc EXCEPT !["pr"] = "filter"]
                  /\ UNCHANGED eventClosed
        ELSE /\ eventClosed' = eventClosed + 1
             /\ UNCHANGED <<currentBlock, pc>>
    /\ UNCHANGED <<runVars, queries, chainVars, cancelled, scanVars, bfLastBlock,
                   retryDelay, header, eventChan, mode, subActive, wsLogs,
                   pollLogs, notifyVars, histVars, startBlock,
                   lastProcessedBlock>>

\* case <-ticker.C: the latest header is fetched. On failure the channel is
\* closed; a head not past the cursor ends the tick.
PL_Tick ==
    /\ mode = "poll" /\ pc["pr"] = "wait"
    /\ \E ok \in RpcOutcomes :
        IF ok
        THEN IF head <= lastProcessedBlock
             THEN UNCHANGED <<currentBlock, pc, eventClosed, startBlock,
                              lastProcessedBlock, queries>>
             ELSE /\ currentBlock' = head
                  /\ pc' = [pc EXCEPT !["pr"] = "filter"]
                  /\ UNCHANGED <<eventClosed, startBlock, lastProcessedBlock,
                                 queries>>
        ELSE /\ eventClosed' = eventClosed + 1
             /\ pc' = [pc EXCEPT !["pr"] = "done"]
             /\ startBlock' = 0
             /\ lastProcessedBlock' = 0
             /\ queries' = <<>>
             /\ UNCHANGED currentBlock
    /\ UNCHANGED <<runVars, chainVars, cancelled, scanVars, bfLastBlock, retryDelay,
                   header, eventChan, mode, subActive, wsLogs, pollLogs,
                   notifyVars, histVars>>

\* FilterLogs over (lastProcessedBlock, currentBlock]; on failure the cursor
\* moves to currentBlock all the same.
PL_Filter ==
    /\ mode = "poll" /\ pc["pr"] = "filter"
    /\ queries' = Append(queries, [from |-> PollFrom(lastProcessedBlock),
                                   to |-> currentBlock])
    /\ \E ok \in RpcOutcomes :
        IF ok
        THEN /\ pollLogs' = RangeLogs(PollFrom(lastProcessedBlock), currentBlock)
             /\ pc' = [pc EXCEPT !["pr"] = "send"]
             /\ UNCHANGED <<lastProcessedBlock, currentBlock>>
        ELSE /\ lastProcessedBlock' =
                    CursorAfterError(lastProcessedBlock, currentBlock)
             /\ pc' = [pc EXCEPT !["pr"] = "wait"]
             /\ currentBlock' = 0
             /\ UNCHANGED pollLogs
    /\ UNCHANGED <<runVars, chainVars, cancelled, scanVars, bfLastBlock, retryDelay,
                   header, eventChan, eventClosed, mode, subActive, wsLogs,
                   startBlock, notifyVars, histVars>>

\* One iteration of the loop over the tick's logs, or its end, where the
\* cursor moves to currentBlock.
PL_Send ==
    /\ UNCHANGED queries
    /\ mode = "poll" /\ pc["pr"] = "send"
    /\ IF pollLogs = <<>>
       THEN /\ lastProcessedBlock' = currentBlock
            /\ pc' = [pc EXCEPT !["pr"] = "wait"]
            /\ currentBlock' = 0
            /\ UNCHANGED <<pollLogs, eventChan>>
       ELSE /\ pollLogs' = Tail(pollLogs)
            /\ IF Forwarded(Head(pollLogs)) = Nil
               THEN UNCHANGED eventChan
               ELSE /\ Len(eventChan) < ChanCap
                    /\ eventChan' = Enqueue(eventChan, Forwarded(Head(pollLogs)))
            /\ UNCHANGED <<lastProcessedBlock, currentBlock, pc>>
    /\ UNCHANGED <<runVars, chainVars, cancelled, scanVars, bfLastBlock, retryDelay,
                   header, eventClosed, mode, subActive, wsLogs, startBlock,
                   notifyVars, histVars>>

\* ------------------------------------------------------ transaction verification

\* The functions that verify a transaction: VerifyTransaction of src/main.go,
\* its copy in src/gateway/contract/gateway.go (the same statements) and
\* CheckPaymentStatus of the payment gateway.
VerifyFns == {"VerifyTransaction", "gateway_VerifyTransaction", "CheckPaymentStatus"}

IsPaymentCheck(fn) == fn = "CheckPaymentStatus"

\* The wallet payments are collected on (appCollectWallet), and a nil
\* *common.Address (tx.To() of a contract creation).
CollectAddress == "collector"
NoAddress == "nil"

\* model.OrderStatus
StatusPending == "PENDING"
StatusPaid == "PAID"
StatusError == "PAYMENT_ERROR"

\* common.HashLength, and types.ReceiptStatusSuccessful.
HashLength == 32
ReceiptStatusSuccessful == 1

\* Value of a hexadecimal digit; 16 for any other character.
HexVal(c) ==
    CASE c = "0" -> 0 [] c = "1" -> 1 [] c = "2" -> 2 [] c = "3" -> 3
      [] c = "4" -> 4 [] c = "5" -> 5 [] c = "6" -> 6 [] c = "7" -> 7
      [] c = "8" -> 8 [] c = "9" -> 9
      [] c \in {"a", "A"} -> 10 [] c \in {"b", "B"} -> 11
      [] c \in {"c", "C"} -> 12 [] c \in {"d", "D"} -> 13
      [] c \in {"e", "E"} -> 14 [] c \in {"f", "F"} -> 15
      [] OTHER -> 16

RECURSIVE Hex2Bytes(_)
\* common.Hex2Bytes: hex.DecodeString with its error dropped, which yields
\* the bytes decoded before the first character that is no hex digit.
Hex2Bytes(str) ==
    IF Len(str) < 2 THEN <<>>
    ELSE IF HexVal(str[1]) > 15 \/ HexVal(str[2]) > 15 THEN <<>>
    ELSE <<16 * HexVal(str[1]) + HexVal(str[2])>>
         \o Hex2Bytes(SubSeq(str, 3, Len(str)))

\* common.FromHex: the 0x prefix is dropped and an odd number of characters
\* gets a leading "0".
FromHex(str) ==
    LET body == IF Len(str) >= 2 /\ str[1] = "0" /\ str[2] \in {"x", "X"}
                THEN SubSeq(str, 3, Len(str)) ELSE str
        even == IF Len(body) % 2 = 1 THEN <<"0">> \o body ELSE body
    IN  Hex2Bytes(even)

\* common.BytesToHash: the last HashLength bytes, right-aligned.
BytesToHash(b) ==
    LET cut == IF Len(b) > HashLength
               THEN SubSeq(b, Len(b) - HashLength + 1, Len(b)) ELSE b
    IN  [i \in 1..(HashLength - Len(cut)) |-> 0] \o cut

\* common.HexToHash
HexToHash(str) == BytesToHash(FromHex(str))

\* txHashObj.Big().Cmp(big.NewInt(0)) == 0
IsZeroHash(h) == \A i \in 1..Len(h) : h[i] = 0

\* x.Cmp(y) for two non-nil *big.Int: -1, 0 or 1.
RECURSIVE DigitsCmp(_, _)
DigitsCmp(a, b) ==
    IF Len(a) # Len(b) THEN (IF Len(a) < Len(b) THEN -1 ELSE 1)
    ELSE IF a = <<>> THEN 0
    ELSE IF Head(a) # Head(b) THEN (IF Head(a) < Head(b) THEN -1 ELSE 1)
    ELSE DigitsCmp(Tail(a), Tail(b))

BigCmp(x, y) == DigitsCmp(x.digits, y.digits)

\* The txHash arguments, as the characters of the string: a well-formed
\* hash, the zero hash, the empty string, a bare prefix, text without a hex
\* digit, text that is no hex past its first byte, a short hex string and an
\* odd-length one.
TxHashArgs ==
    { <<"0", "x">> \o [i \in 1..64 |-> "a"],
      <<"0", "x">> \o [i \in 1..64 |-> "0"],
      <<>>,
      <<"0", "x">>,
      <<"z", "z">>,
      <<"1", "2", "z", "z">>,
      <<"0", "x", "1", "2">>,
      <<"a", "b", "c">> }

\* The values a transaction may carry: nothing, one wei less than the
\* price, the price, one wei more.
TxValues ==
    { BigZero, BigInt([i \in 1..15 |-> 9]), PriceWei,
      BigInt(<<1>> \o [i \in 1..14 |-> 0] \o <<1>>) }

\* What TransactionByHash may return besides an error: the transaction and
\* whether it is pending.
Transactions ==
    [pending : BOOLEAN, value : TxValues,
     to : {NoAddress, CollectAddress, ContractAddress, OtherAddress}]

\* An RPC returned an error.
RpcError == [kind |-> "error"]

\* What TransactionReceipt may return besides an error.
Receipts == [status : {0, 1}, blockNumber : {12}, gasUsed : {21000}]

\* The return of VerifyTransaction (a *TxVerification or Nil, and the
\* error's text, "" for nil) or of CheckPaymentStatus (an OrderStatus and the
\* error's text).
Fails(fn, msg) ==
    [result |-> IF IsPaymentCheck(fn) THEN StatusError ELSE Nil, err |-> msg]

\* Mutant: every mined transaction is reported as a success.
ReceiptVerdict_Success(status) == "success"

\* verification.Status of a mined transaction.
ReceiptVerdict(status) ==
    IF status = ReceiptStatusSuccessful THEN "success" ELSE "failed"

\* Mutant: any transaction with a target counts as a call of the contract.
Verification_AnyTarget(call, tx, receipt) ==
    [result |-> [TxHash |-> call.txHash,
                 BlockNumber |-> receipt.blockNumber,
                 GasUsed |-> receipt.gasUsed,
                 Success |-> receipt.status = ReceiptStatusSuccessful,
                 Status |-> ReceiptVerdict(receipt.status),
                 IsContractCall |-> tx.to # NoAddress],
     err |-> ""]

\* What VerifyTransaction returns for a mined transaction and its receipt.
Verification(call, tx, receipt) ==
    [result |-> [TxHash |-> call.txHash,
                 BlockNumber |-> receipt.blockNumber,
                 GasUsed |-> receipt.gasUsed,
                 Success |-> receipt.status = ReceiptStatusSuccessful,
                 Status |-> ReceiptVerdict(receipt.status),
                 IsContractCall |-> tx.to # NoAddress /\ tx.to = ContractAddress],
     err |-> ""]

\* Mutant: the amount is not looked at.
PaymentVerdict_AnyAmount(call, tx, receipt) ==
    IF receipt.status # ReceiptStatusSuccessful
    THEN Fails("CheckPaymentStatus", "transaction failed on chain (reverted)")
    ELSE IF tx.to = NoAddress
    THEN Fails("CheckPaymentStatus",
               "transaction is not a transfer to a valid address")
    ELSE IF tx.to # call.expectedAddr
    THEN Fails("CheckPaymentStatus",
               "transaction sent to wrong recipient address")
    ELSE [result |-> StatusPaid, err |-> ""]

\* What CheckPaymentStatus returns for a mined transaction and its receipt.
PaymentVerdict(call, tx, receipt) ==
    IF receipt.status # ReceiptStatusSuccessful
    THEN Fails("CheckPaymentStatus", "transaction failed on chain (reverted)")
    ELSE IF BigCmp(tx.value, call.expectedWei) < 0
    THEN Fails("CheckPaymentStatus", "insufficient payment amount")
    ELSE IF tx.to = NoAddress
    THEN Fails("CheckPaymentStatus",
               "transaction is not a transfer to a valid address")
    ELSE IF tx.to # call.expectedAddr
    THEN Fails("CheckPaymentStatus",
               "transaction sent to wrong recipient address")
    ELSE [result |-> StatusPaid, err |-> ""]

\* What the call returns for a pending transaction.
PendingReturn(call) ==
    IF IsPaymentCheck(call.fn)
    THEN [result |-> StatusPending, err |-> "transaction is still pending"]
    ELSE [result |-> [TxHash |-> call.txHash, BlockNumber |-> 0, GasUsed |-> 0,
                      Success |-> FALSE, Status |-> "pending",
                      IsContractCall |-> FALSE],
          err |-> ""]

\* The call returns out.
V_Return(out) ==
    /\ txOut' = out
    /\ txPc' = "done"

\* The hash is converted and a zero hash is turned down.
V_Check ==
    /\ txPc = "check"
    /\ IF IsZeroHash(HexToHash(txCall.txHash))
       THEN V_Return(Fails(txCall.fn, "invalid transaction hash format"))
       ELSE txPc' = "byHash" /\ UNCHANGED txOut
    /\ UNCHANGED <<pipeVars, startVars, confirmVars, decVars, scanRunVars, txCall, txFound, txReceipt,
                   txCalls>>

\* Mutant: a pending transaction goes on to the receipt lookup.
V_ByHash_NoPendingCheck ==
    /\ txPc = "byHash"
    /\ txCalls' = Append(txCalls, "TransactionByHash")
    /\ \/ /\ V_Return(Fails(txCall.fn,
                             IF IsPaymentCheck(txCall.fn)
                             THEN "transaction not found or node error"
                             ELSE "transaction not found"))
          /\ UNCHANGED txFound
       \/ \E tx \in Transactions :
            /\ txFound' = tx
            /\ txPc' = "receipt"
            /\ UNCHANGED txOut
    /\ UNCHANGED <<pipeVars, startVars, confirmVars, decVars, scanRunVars, txCall, txReceipt>>

\* TransactionByHash: an error ends the call, a pending transaction ends it
\* with the pending status, a mined one leads to the receipt.
V_ByHash ==
    /\ txPc = "byHash"
    /\ txCalls' = Append(txCalls, "TransactionByHash")
    /\ \/ /\ V_Return(Fails(txCall.fn,
                             IF IsPaymentCheck(txCall.fn)
                             THEN "transaction not found or node error"
                             ELSE "transaction not found"))
          /\ UNCHANGED txFound
       \/ \E tx \in Transactions :
            /\ txFound' = tx
            /\ IF tx.pending
               THEN V_Return(PendingReturn(txCall))
               ELSE txPc' = "receipt" /\ UNCHANGED txOut
    /\ UNCHANGED <<pipeVars, startVars, confirmVars, decVars, scanRunVars, txCall, txReceipt>>

\* TransactionReceipt: an error ends the call, a receipt gives the verdict.
V_Receipt ==
    /\ txPc = "receipt"
    /\ txCalls' = Append(txCalls, "TransactionReceipt")
    /\ \/ /\ txReceipt' = RpcError
          /\ V_Return(Fails(txCall.fn, "failed to get transaction receipt"))
       \/ \E receipt \in Receipts :
            /\ txReceipt' = receipt
            /\ V_Return(IF IsPaymentCheck(txCall.fn)
                        THEN PaymentVerdict(txCall, txFound, receipt)
                        ELSE Verification(txCall, txFound, receipt))
    /\ UNCHANGED <<pipeVars, startVars, confirmVars, decVars, scanRunVars, txCall, txFound>>

\* ------------------------------------------------------------- ConfirmPayment

\* What GetProductPrice may return: a price in yen with a nil error, or 0
\* with one of its three errors.
ProductLookups ==
    { [price |-> 1200, err |-> ""],
      [price |-> 0, err |-> "failed to fetch product information"],
      [price |-> 0, err |-> "product not found"],
      [price |-> 0, err |-> "failed to parse product information"] }

\* The order ConfirmPayment builds, with the status it is given.
PaymentOrder(call, priceYen, status) ==
    [OrderID |-> call.orderID,
     ProductID |-> call.productID,
     PriceYen |-> priceYen,
     AmountETH |-> "0.001",
     AmountWei |-> BigString(PriceWei),
     PaymentAddr |-> CollectAddress,
     TxHash |-> call.txHash,
     Status |-> status]

\* Steps 1 to 4 of ConfirmPayment up to the call of CheckPaymentStatus: the
\* product lookup, whose error ends the call, then the call with the fixed
\* amount and the collect address.
CP_Product ==
    /\ cpPc = "product"
    /\ \E found \in ProductLookups :
        /\ cpPrice' = found
        /\ IF found.err # ""
           THEN /\ cpOut' = [order |-> Nil,
                             err |-> "failed to get product: " \o found.err]
                /\ cpPc' = "done"
                /\ UNCHANGED <<txCall, txPc>>
           ELSE /\ txCall' = [fn |-> "CheckPaymentStatus",
                              txHash |-> cpCall.txHash,
                              expectedAddr |-> CollectAddress,
                              expectedWei |-> PriceWei]
                /\ txPc' = "check"
                /\ cpPc' = "verify"
                /\ UNCHANGED cpOut
    /\ UNCHANGED <<pipeVars, startVars, decVars, scanRunVars, txFound,
                   txReceipt, txCalls, txOut, cpCall>>

\* Mutant: the order is returned along with the error of the verification.
CP_Return_WithOrder ==
    /\ cpPc = "verify"
    /\ txPc = "done"
    /\ cpOut' = IF txOut.err # ""
                THEN [order |-> PaymentOrder(cpCall, cpPrice.price, StatusError),
                      err |-> "payment verification failed: " \o txOut.err]
                ELSE [order |-> PaymentOrder(cpCall, cpPrice.price, txOut.result),
                      err |-> ""]
    /\ cpPc' = "done"
    /\ UNCHANGED <<pipeVars, startVars, decVars, scanRunVars, verifyVars,
                   cpCall, cpPrice>>

\* CheckPaymentStatus has returned: its error is wrapped and returned with no
\* order, otherwise the order is returned with the status it gave.
CP_Return ==
    /\ cpPc = "verify"
    /\ txPc = "done"
    /\ cpOut' = IF txOut.err # ""
                THEN [order |-> Nil,
                      err |-> "payment verification failed: " \o txOut.err]
                ELSE [order |-> PaymentOrder(cpCall, cpPrice.price, txOut.result),
                      err |-> ""]
    /\ cpPc' = "done"
    /\ UNCHANGED <<pipeVars, startVars, decVars, scanRunVars, verifyVars,
                   cpCall, cpPrice>>

\* --------------------------------------------------------------- environment

\* The chain grows by one block; an open subscription is pushed its logs.
Mine ==
    /\ head < MaxBlock
    /\ head' = head + 1
    /\ wsLogs' = IF subActive THEN wsLogs \o BlockLogs(head + 1) ELSE wsLogs
    /\ UNCHANGED <<runVars, queries, chain, cancelled, pc, scanVars, bfLastBlock, retryDelay, liveVars,
                   notifyVars, histVars>>

\* The owner of ctx cancels it.
Cancel ==
    /\ ~cancelled
    /\ cancelled' = TRUE
    /\ cancelAt' = [bf |-> pc["bf"], rl |-> pc["rl"]]
    /\ UNCHANGED <<runVars, queries, chainVars, pc, scanVars, bfLastBlock, retryDelay, liveVars,
                   wsLogs, notifyVars, failures, lastWait,
                   subscribedAfterCancel>>

\* ------------------------------------------------------------- specification

\* The pipeline after NewContractUsecase, as StartEventListener starts its
\* goroutine, on a chain of one block.
PipelineInit ==
    /\ head = 1
    /\ cancelled = FALSE
    /\ pc = [bf |-> "scan", sc |-> "idle", rl |-> "idle", pr |-> "idle"]
    /\ pastEvents = <<>>
    /\ pastClosed = 0
    /\ scanFrom = 0
    /\ scanTo = NoBlock
    /\ scanLogs = <<>>
    /\ bfLastBlock = 0
    /\ retryDelay = InitialRetryDelay
    /\ header = 0
    /\ eventChan = <<>>
    /\ eventClosed = 0
    /\ mode = "none"
    /\ subActive = FALSE
    /\ wsLogs = <<>>
    /\ startBlock = 0
    /\ lastProcessedBlock = 0
    /\ currentBlock = 0
    /\ pollLogs = <<>>
    /\ ev = [p \in Consumers |-> Nil]
    /\ request = [p \in Consumers |-> Nil]
    /\ att = [p \in Consumers |-> 0]
    /\ lastCode = [p \in Consumers |-> NoCode]
    /\ posts = [p \in Consumers |-> 0]
    /\ result = [p \in Consumers |-> "none"]
    /\ waits = [p \in Consumers |-> <<>>]
    /\ notified = <<>>
    /\ failures = 0
    /\ lastWait = 0
    /\ cancelAt = [bf |-> "none", rl |-> "none"]
    /\ subscribedAfterCancel = FALSE
    /\ queries = <<>>

\* No decoder run is under way.
DecoderIdle ==
    /\ rawLog = Nil
    /\ decoded = [f \in GatewayFiles |-> NotRun]
    /\ forwarded = [f \in GatewayFiles |-> NotRun]
    /\ handled = [f \in GatewayFiles |-> NotRun]

\* No verification run is under way.
VerifyIdle ==
    /\ txCall = Nil
    /\ txPc = "idle"
    /\ txFound = Nil
    /\ txReceipt = Nil
    /\ txCalls = <<>>
    /\ txOut = NotRun

\* No range run is under way.
ScanRunIdle ==
    /\ scanCall = Nil
    /\ scanRange = NotRun

\* StartEventListener has returned to its caller.
StartReturned ==
    /\ startPc = "returned"
    /\ startErr = "nil"

\* No ConfirmPayment call is under way.
ConfirmIdle ==
    /\ cpCall = Nil
    /\ cpPc = "idle"
    /\ cpPrice = NotRun
    /\ cpOut = NotRun

Init ==
    /\ chain \in Chains
    /\ PipelineInit
    /\ DecoderIdle
    /\ ScanRunIdle
    /\ VerifyIdle
    /\ StartReturned
    /\ ConfirmIdle

Next ==
    \/ Mine
    \/ Cancel
    \/ BF_Scan
    \/ SC_Header
    \/ SC_Filter
    \/ SC_Failed
    \/ SC_Send
    \/ BF_Recv
    \/ BF_Done
    \/ RL_Top
    \/ SE_Health
    \/ SE_SubscribeWS
    \/ SE_SubscribePoll
    \/ RL_Recv
    \/ RL_Closed
    \/ RL_BackoffCancelled
    \/ RL_BackoffElapsed
    \/ WS_CtxDone
    \/ WS_SubErr
    \/ WS_LogsClosed
    \/ WS_Log
    \/ PL_CtxDone
    \/ PL_Tick
    \/ PL_Filter
    \/ PL_Send
    \/ \E p \in Consumers : Post(p)
    \/ \E p \in Consumers : Sleep(p)
    \/ \E p \in Consumers : HandleReturn(p)

Spec == Init /\ [][Next]_vars

\* The decoder on its own: one log drawn from DecoderLogs, handed to parseLog
\* and to the forwarding loops of both files, the pipeline standing still.
DecoderInit ==
    /\ chain = [b \in 1..MaxBlock |-> <<>>]
    /\ PipelineInit
    /\ rawLog \in DecoderLogs
    /\ decoded = [f \in GatewayFiles |-> NotRun]
    /\ forwarded = [f \in GatewayFiles |-> NotRun]
    /\ handled = [f \in GatewayFiles |-> NotRun]
    /\ ScanRunIdle
    /\ VerifyIdle
    /\ StartReturned
    /\ ConfirmIdle

DecoderNext ==
    \/ \E f \in GatewayFiles : D_ParseLog(f)
    \/ \E f \in GatewayFiles : D_Forward(f)
    \/ \E f \in GatewayFiles : D_Handle(f)

DecoderSpec == DecoderInit /\ [][DecoderNext]_vars

\* ScanPastEvents' choice of range on its own: one call drawn from the
\* argument and head sets, for either file, the pipeline standing still.
ScanRangeInit ==
    /\ chain = [b \in 1..MaxBlock |-> <<>>]
    /\ PipelineInit
    /\ DecoderIdle
    /\ scanCall \in [file : GatewayFiles, fromBlock : ScanFromArgs,
                      toBlock : ScanToArgs, cur : ScanHeads]
    /\ scanRange = NotRun
    /\ VerifyIdle
    /\ StartReturned
    /\ ConfirmIdle

ScanRangeNext == SR_Resolve

ScanRangeSpec == ScanRangeInit /\ [][ScanRangeNext]_vars

\* Transaction verification on its own: one call of VerifyTransaction (of
\* either file) or of CheckPaymentStatus with a hash drawn from TxHashArgs,
\* the node answering each request as it likes, the pipeline standing still.
VerifyInit ==
    /\ chain = [b \in 1..MaxBlock |-> <<>>]
    /\ PipelineInit
    /\ DecoderIdle
    /\ ScanRunIdle
    /\ txCall \in [fn : VerifyFns, txHash : TxHashArgs,
                    expectedAddr : {CollectAddress}, expectedWei : {PriceWei}]
    /\ txPc = "check"
    /\ txFound = Nil
    /\ txReceipt = Nil
    /\ txCalls = <<>>
    /\ txOut = NotRun
    /\ StartReturned
    /\ ConfirmIdle

VerifyNext == V_Check \/ V_ByHash \/ V_Receipt

VerifySpec == VerifyInit /\ [][VerifyNext]_vars

\* ConfirmPayment on its own: one call with a hash drawn from TxHashArgs, the
\* backend answering the product lookup and the node answering each request
\* of CheckPaymentStatus as they like, the pipeline standing still.
ConfirmInit ==
    /\ chain = [b \in 1..MaxBlock |-> <<>>]
    /\ PipelineInit
    /\ DecoderIdle
    /\ ScanRunIdle
    /\ VerifyIdle
    /\ StartReturned
    /\ cpCall \in [orderID : {"order-1"}, productID : {"7"}, txHash : TxHashArgs]
    /\ cpPc = "product"
    /\ cpPrice = NotRun
    /\ cpOut = NotRun

ConfirmNext == CP_Product \/ V_Check \/ V_ByHash \/ V_Receipt \/ CP_Return

ConfirmSpec == ConfirmInit /\ [][ConfirmNext]_vars

\* The start of the pipeline, up to the first call of SubscribeEvents: the
\* scan goroutine, the goroutine of StartEventListener and the head of
\* startRealtimeListener's loop, with the chain growing and ctx being
\* cancelled at any time.
ScanStep == SC_Header \/ SC_Filter \/ SC_Failed \/ SC_Send

BackfillStep ==
    \/ BF_Scan
    \/ BF_Recv
    \/ BF_Done
    \/ Post("bf")
    \/ Sleep("bf")
    \/ HandleReturn("bf")

StartupNext ==
    \/ Mine
    \/ Cancel
    \/ ScanStep
    \/ BackfillStep
    \/ RL_Top

\* A goroutine that can run is scheduled, and an RPC or a POST made under a
\* timeout returns; the node, the backend and the owner of ctx owe nothing.
StartupSpec ==
    /\ Init /\ [][StartupNext]_vars
    /\ WF_vars(ScanStep)
    /\ WF_vars(BackfillStep)
    /\ WF_vars(RL_Top)

\* The pipeline while ctx is never cancelled: every step but Cancel and the
\* ctx.Done() cases, which cannot be taken.
ListenerStep ==
    \/ RL_Top
    \/ SE_Health
    \/ SE_SubscribeWS
    \/ SE_SubscribePoll
    \/ RL_Recv
    \/ RL_Closed
    \/ RL_BackoffElapsed
    \/ Post("rl")
    \/ Sleep("rl")
    \/ HandleReturn("rl")

ProducerStep ==
    \/ WS_SubErr
    \/ WS_LogsClosed
    \/ WS_Log
    \/ PL_Tick
    \/ PL_Filter
    \/ PL_Send

UncancelledNext ==
    \/ Mine
    \/ ScanStep
    \/ BackfillStep
    \/ ListenerStep
    \/ ProducerStep

\* The goroutine of startRealtimeListener is scheduled whenever it can run,
\* its timers fire and its RPCs and POSTs return; nothing is asked of the
\* node, of the backend or of the other goroutines.
UncancelledSpec ==
    /\ Init /\ [][UncancelledNext]_vars
    /\ WF_vars(ListenerStep)

\* The whole pipeline with its goroutines scheduled: a goroutine that can
\* run does, timers fire, RPCs and POSTs return, and a select that is entered
\* again and again with ctx.Done() ready takes that case in the end. Nothing
\* is asked of the node, of the backend or of the owner of ctx.
ShutdownSpec ==
    /\ Init /\ [][Next]_vars
    /\ WF_vars(ScanStep)
    /\ WF_vars(BackfillStep)
    /\ WF_vars(ListenerStep \/ RL_BackoffCancelled)
    /\ WF_vars(ProducerStep)
    /\ SF_vars(WS_CtxDone)
    /\ SF_vars(PL_CtxDone)

\* The pipeline with a pollEvents whose tick may panic.
RecoverNext == Next \/ PL_Panic

RecoverSpec == Init /\ [][RecoverNext]_vars

\* The call of StartEventListener and what it starts, up to the listener's
\* first wait: the caller has just executed the go statement, the goroutine
\* scans and delivers the past events, the listener makes its connectivity
\* check and waits out its delay when the check fails.
StartCallInit ==
    /\ chain \in Chains
    /\ PipelineInit
    /\ DecoderIdle
    /\ ScanRunIdle
    /\ VerifyIdle
    /\ startPc = "log"
    /\ startErr = "none"
    /\ ConfirmIdle

StartCallNext ==
    \/ SEL_Return
    \/ Mine
    \/ Cancel
    \/ ScanStep
    \/ BackfillStep
    \/ RL_Top
    \/ SE_Health
    \/ RL_BackoffCancelled
    \/ RL_BackoffElapsed

\* The caller of StartEventListener is scheduled; nothing is asked of the
\* goroutines it started, of the node or of the backend.
StartCallSpec ==
    /\ StartCallInit /\ [][StartCallNext]_vars
    /\ WF_vars(SEL_Return)

\* -------------------------------------------------------------------- claims

\* The transactions of the logs handed to handleEvent so far.
NotifiedTx == { notified[i].tx : i \in 1..Len(notified) }

\* The logs the node holds for the blocks from..to.
EventLogs(from, to) ==
    { RangeLogs(from, to)[i] : i \in 1..Len(RangeLogs(from, to)) }

\* The listener has been started (it is at or past the head of its loop).
ListenerStarted == pc["rl"] # "idle"

\* C1: the realtime listener, hence the first SubscribeEvents call, comes
\* only after the channel of ScanPastEvents was closed and drained and
\* handleEvent returned for every event of it; and no event of a live session
\* is handled before an event of the backfill.
C1_BackfillBeforeLive ==
    /\ ListenerStarted =>
          /\ pastClosed > 0
          /\ pastEvents = <<>>
          /\ pc["sc"] = "done"
          /\ pc["bf"] = "done"
    /\ \A i, j \in 1..Len(notified) :
          (notified[i].by = "rl" /\ notified[j].by = "bf") => j < i

\* C1 witness: a live session has handled an event after the backfill
\* handled one.
C1_Witness ==
    /\ Len(notified) >= 2
    /\ notified[1].by = "bf"
    /\ notified[Len(notified)].by = "rl"

\* The live session is established and has nothing left to deliver: the
\* listener waits on the empty, open channel, and the producer has gone
\* through every log it will ever see up to the head.
LiveCaughtUp ==
    /\ ~cancelled
    /\ pc["rl"] = "range"
    /\ eventChan = <<>>
    /\ eventClosed = 0
    /\ \/ mode = "ws" /\ pc["pr"] = "select" /\ wsLogs = <<>>
       \/ mode = "poll" /\ pc["pr"] = "wait" /\ lastProcessedBlock >= head

\* C2: no event is dropped: every log of the contract mined after the
\* backfill's head block that decodes to an event is handed to handleEvent;
\* so once the live session has caught up with the head, all of them were.
C2_NoEventDropped ==
    (LiveCaughtUp /\ scanTo # NoBlock) =>
        \A l \in EventLogs(scanTo + 1, head) :
            Forwarded(l) # Nil => <<l.block, l.idx>> \in NotifiedTx

\* C3: no log is handed to handleEvent more than once in a run.
C3_NoDuplicate ==
    \A i, j \in 1..Len(notified) :
        notified[i].tx = notified[j].tx => i = j

\* C3 witness: events were handled by the backfill and by a live session
\* that followed a reconnect.
C3_Witness ==
    /\ lastWait > 0
    /\ \E i, j \in 1..Len(notified) :
          /\ notified[i].by = "bf"
          /\ notified[j].by = "rl"
          /\ notified[j].tx[1] > 1

\* C4: once the producer of a live session has ended (on cancellation, a
\* subscription error, the closure of the logs channel or a failed head
\* fetch), the session's channel has been closed.
C4_ChannelClosedOnTermination ==
    pc["pr"] = "done" => eventClosed > 0

\* The wait points of the orchestrator: the backoff delay, the range over
\* the live channel, the sleep between notification retries.
CancelledAtWaitPoint ==
    /\ cancelled
    /\ \/ cancelAt.rl \in {"backoffErr", "backoffClosed", "range", "sleep"}
       \/ cancelAt.bf = "sleep"

\* The listener waits on an open, empty channel whose producer has ended:
\* nothing will ever wake it.
ListenerStuck ==
    /\ pc["rl"] = "range"
    /\ eventChan = <<>>
    /\ eventClosed = 0
    /\ pc["pr"] = "done"

\* C5: when ctx is cancelled at a wait point of the orchestrator, the loop
\* halts (it is never left waiting for ever) and SubscribeEvents is not
\* called again.
C5_CancelHaltsLoop ==
    CancelledAtWaitPoint => (~subscribedAfterCancel /\ ~ListenerStuck)

RECURSIVE Pow2(_)
Pow2(n) == IF n = 0 THEN 1 ELSE 2 * Pow2(n - 1)

\* min(floor * 2^n, ceiling), in seconds.
Backoff(n) == IF 5 * Pow2(n) < 60 THEN 5 * Pow2(n) ELSE 60

\* C6: after N consecutive failures the delay is min(5 * 2^N, 60): that is
\* retryDelay at the head of the loop, and the delay waited out after the
\* N-th failure is min(5 * 2^(N-1), 60): 5, 10, 20, 40, 60, 60, ...
C6_BackoffDelay ==
    /\ pc["rl"] = "top" => retryDelay = Backoff(failures)
    /\ pc["rl"] \in {"backoffErr", "backoffClosed"} =>
          /\ failures >= 1
          /\ retryDelay = Backoff(failures - 1)

\* C6 witness: the ceiling is in force after five failures in a row.
C6_Witness ==
    /\ pc["rl"] = "top"
    /\ failures = 5
    /\ retryDelay = 60
    /\ lastWait = 60

\* C7: from the successful return of SubscribeEvents until the wait that
\* follows the end of that stream, the delay is the floor.
C7_ResetOnConnect ==
    pc["rl"] \in {"range", "post", "sleep", "handled", "backoffClosed"} =>
        retryDelay = 5

\* C7 witness: a stream that followed failed attempts (the delay had grown
\* to 20 s or more) and never delivered an event has ended, and the floor is
\* about to be waited out.
C7_Witness ==
    /\ pc["rl"] = "backoffClosed"
    /\ lastWait >= 10
    /\ notified = <<>>
    /\ retryDelay = 5

\* C8: a 4xx answer ends the call: it has returned a permanent error, no
\* POST follows in the call, and the answer's POST was the last of the
\* attempts made so far.
C8_ClientErrorEndsDelivery ==
    \A p \in Consumers :
        (lastCode[p] >= 400 /\ lastCode[p] < 500) =>
            /\ pc[p] = "handled"
            /\ result[p] = "permanent"
            /\ posts[p] = att[p] + 1

\* C8 witness: a first POST answered 404 ended the call after one attempt.
C8_Witness ==
    \E p \in Consumers :
        lastCode[p] = 404 /\ posts[p] = 1 /\ result[p] = "permanent"

\* A 5xx answer or a transport error.
RetryableAnswer(code) == code = NetErr \/ code >= 500

\* C9: a call whose answers are all 5xx or transport errors goes on until
\* its third POST, makes no fourth one, and then returns the terminal error.
C9_RetryableExhaustsAttempts ==
    \A p \in Consumers :
        /\ posts[p] <= 3
        /\ (RetryableAnswer(lastCode[p]) /\ posts[p] < 3) =>
              (pc[p] \in {"sleep", "post"} /\ result[p] = "none")
        /\ (RetryableAnswer(lastCode[p]) /\ posts[p] = 3) =>
              (pc[p] = "handled" /\ result[p] = "exhausted")
        /\ result[p] = "exhausted" => posts[p] = 3

\* C9 witness: a call returned the terminal error after three POSTs, the
\* last one answered 500.
C9_Witness ==
    \E p \in Consumers :
        result[p] = "exhausted" /\ posts[p] = 3 /\ lastCode[p] = 500

\* C10: a 2xx answer at any attempt ends the call with success: no POST
\* follows in the call.
C10_SuccessStopsAttempts ==
    \A p \in Consumers :
        (lastCode[p] >= 200 /\ lastCode[p] < 300) =>
            /\ pc[p] = "handled"
            /\ result[p] = "ok"

\* C10 witness: the third POST of a call was answered 200.
C10_Witness ==
    \E p \in Consumers :
        lastCode[p] = 200 /\ posts[p] = 3 /\ result[p] = "ok"

\* C11 (as stated): the successive waits of a call that runs to the 3-attempt
\* bound are 1x, 2x and 3x the 1-second base unit.
C11_LinearDelays ==
    \A p \in Consumers :
        result[p] = "exhausted" => waits[p] = <<1, 2, 3>>

\* C11 (amended): the k-th wait of a call is k times the 1-second base unit
\* and precedes attempt k + 1; a call that runs to the 3-attempt bound has
\* waited twice, 1 s then 2 s, and no call waits 3 s.
C11_LinearDelaysAmended ==
    \A p \in Consumers :
        /\ \A k \in 1..Len(waits[p]) : waits[p][k] = k
        /\ Len(waits[p]) <= 2
        /\ pc[p] = "post" => Len(waits[p]) = posts[p]
        /\ result[p] = "exhausted" => waits[p] = <<1, 2>>

\* C11 witness: a call has run to the bound after waiting 1 s and 2 s.
C11_Witness ==
    \E p \in Consumers :
        result[p] = "exhausted" /\ posts[p] = 3 /\ waits[p] = <<1, 2>>

\* notifyBackend has returned an error to handleEvent in consumer p.
NotifyFailed(p) ==
    pc[p] = "handled" /\ result[p] \in {"permanent", "exhausted"}

\* The events waiting in channel ch.
Waiting(ch) == { ch[i] : i \in 1..Len(ch) }

\* C12: when notifyBackend returns an error (4xx, or attempts exhausted) the
\* consumer's next step is the return of handleEvent to the range loop of the
\* same channel, which is neither closed nor given the failed event again.
C12_FailureDoesNotHalt ==
    [][\A p \in Consumers :
          (NotifyFailed(p) /\ pc'[p] # pc[p]) =>
              /\ pc'[p] = "range"
              /\ ev[p] \notin Waiting(pastEvents') \cup Waiting(eventChan')
              /\ Len(notified') = Len(notified)
              /\ pastClosed' = pastClosed
              /\ eventClosed' = eventClosed]_vars

\* C12 witness: a live delivery has failed with its attempts exhausted while
\* the next event of the same channel waits, after the backfill had a
\* delivery of its own.
C12_Witness ==
    /\ NotifyFailed("rl")
    /\ result["rl"] = "exhausted"
    /\ eventChan # <<>>
    /\ eventClosed = 0

\* Consumer p is inside a notifyBackend call or about to return from
\* handleEvent.
InFlight(p) == pc[p] \in {"post", "sleep", "handled"}

\* Transaction a precedes b in the node's order: block, then log index.
TxBefore(a, b) == a[1] < b[1] \/ (a[1] = b[1] /\ a[2] < b[2])

\* The events of channel ch are in the node's order.
InNodeOrder(ch) ==
    \A i, j \in 1..Len(ch) : i < j => TxBefore(ch[i].txHash, ch[j].txHash)

\* C13: events are notified one at a time, in the order they were produced:
\* the two consumers are never inside a delivery at the same time, a delivery
\* in progress is that of the event handled last (so every POST of event k
\* precedes the first POST of event k+1), and the handled events and the
\* waiting ones are in the node's order.
C13_OneAtATimeInOrder ==
    /\ ~(InFlight("bf") /\ InFlight("rl"))
    /\ \A p \in Consumers :
          InFlight(p) =>
              /\ notified # <<>>
              /\ notified[Len(notified)] = [tx |-> ev[p].txHash, by |-> p]
    /\ \A p \in Consumers : ~InFlight(p) => posts[p] = 0
    /\ \A i, j \in 1..Len(notified) :
          i < j => TxBefore(notified[i].tx, notified[j].tx)
    /\ InNodeOrder(pastEvents)
    /\ InNodeOrder(eventChan)
    /\ \A e \in Waiting(pastEvents) \cup Waiting(eventChan) :
          \A i \in 1..Len(notified) : TxBefore(notified[i].tx, e.txHash)

\* C13 witness: the backfill is between the second and the third attempt
\* for one event while the next event waits in its channel.
C13_Witness ==
    /\ pc["bf"] = "sleep"
    /\ posts["bf"] = 2
    /\ Len(pastEvents) = 1

\* pollEvents is running.
PollerRunning == mode = "poll" /\ pc["pr"] \in {"wait", "filter", "send"}

\* C14: within one polling loop the cursor never decreases, the logs of a
\* tick are those of blocks after the cursor up to the tick's head, and no
\* event the loop has sent is sent again.
C14_CursorMonotone ==
    /\ [][(PollerRunning /\ PollerRunning') =>
             /\ lastProcessedBlock' >= lastProcessedBlock
             /\ startBlock' = startBlock]_vars
    /\ [](PollerRunning =>
             /\ lastProcessedBlock >= startBlock
             /\ \A i \in 1..Len(pollLogs) :
                   /\ pollLogs[i].block > lastProcessedBlock
                   /\ pollLogs[i].block <= currentBlock
             /\ \A e \in Waiting(eventChan) :
                   /\ e.block > startBlock
                   /\ e.txHash \notin NotifiedTx
             /\ InNodeOrder(eventChan))

\* C14 witness: a second query of one polling loop has returned logs of the
\* blocks after the cursor the first one left.
C14_Witness ==
    /\ PollerRunning
    /\ pc["pr"] = "send"
    /\ pollLogs # <<>>
    /\ lastProcessedBlock > startBlock

\* The step in which FilterLogs fails in pollEvents.
FilterFailedStep ==
    PollerRunning /\ pc["pr"] = "filter" /\ pc'["pr"] = "wait"

\* C15: when FilterLogs fails for (cursor, head] the cursor moves to head,
\* the channel stays open and unchanged and the loop waits for its next tick;
\* and whatever the loop sends later is of a block after the cursor, so the
\* logs of the failed range are never sent by it.
C15_FetchErrorSkipsRange ==
    /\ [][FilterFailedStep =>
             /\ lastProcessedBlock' = currentBlock
             /\ lastProcessedBlock' > lastProcessedBlock
             /\ eventClosed = 0 /\ eventClosed' = 0
             /\ eventChan' = eventChan
             /\ pollLogs' = <<>>
             /\ PollerRunning']_vars
    /\ [][(PollerRunning /\ Len(eventChan') > Len(eventChan)) =>
             eventChan'[Len(eventChan')].block > lastProcessedBlock]_vars

\* C15 witness: the loop has passed a block which holds an event of the
\* contract that it never sent, and it polls on with the channel open.
C15_Witness ==
    /\ PollerRunning
    /\ pc["pr"] = "wait"
    /\ pc["rl"] = "range"
    /\ eventChan = <<>>
    /\ eventClosed = 0
    /\ \E l \in EventLogs(startBlock + 1, lastProcessedBlock) :
          /\ Forwarded(l) # Nil
          /\ <<l.block, l.idx>> \notin NotifiedTx

\* C16: when SubscribeEvents fails on its connectivity check the listener is
\* in its backoff wait with a failure counted, no subscription is open and no
\* forwarding goroutine or polling loop runs.
C16_FailedCheckStartsNothing ==
    pc["rl"] = "backoffErr" =>
        /\ ~subActive
        /\ pc["pr"] \in {"idle", "done"}
        /\ failures >= 1
        /\ ev["rl"] = Nil

\* C16 witness: the node failed the check twice in a row, without
\* cancellation, after a live session had ended.
C16_Witness ==
    /\ pc["rl"] = "backoffErr"
    /\ ~cancelled
    /\ failures = 3
    /\ mode # "none"

\* The scan goroutine of ScanPastEvents has failed on its header fetch or on
\* FilterLogs and is returning.
ScanFailed == pc["sc"] = "failed"

\* C17: a backfill that fails outright does not block realtime ingestion:
\* the realtime listener is started all the same, and unless ctx is
\* cancelled it calls SubscribeEvents.
C17_FailedBackfillStartsLive ==
    /\ ScanFailed ~> ListenerStarted
    /\ ScanFailed ~> (pc["rl"] = "health" \/ cancelled)

\* C17 witness: the header fetch of the scan failed, nothing was backfilled,
\* and the listener has entered SubscribeEvents without ctx being cancelled.
C17_Witness ==
    /\ pc["sc"] = "done"
    /\ scanTo = NoBlock
    /\ notified = <<>>
    /\ ~cancelled
    /\ pc["rl"] = "health"

\* The decoder or the loop, if it was run, yielded no event.
NoEvent(r) == r \in {NotRun, Nil}

\* C18: a log whose emitting address is not the configured contract address
\* decodes to no event whatever its topic 0, and no forwarding loop sends an
\* event for it; this is stated of parseLog and of the loops of both files.
C18_ForeignAddressRejected ==
    (rawLog # Nil /\ rawLog.addr # ContractAddress) =>
        \A f \in GatewayFiles : NoEvent(decoded[f]) /\ NoEvent(forwarded[f])

\* The topics an event's schema requires: topic 0 and its indexed fields.
RequiredTopics(kind) ==
    CASE kind = "ItemListed" -> 4
      [] kind = "ItemPurchased" -> 3
      [] kind = "ItemUpdated" -> 2
      [] kind = "ItemCancelled" -> 3
      [] kind = "ReceiptConfirmed" -> 4

\* A log of the contract whose topic 0 is a known signature.
KnownLog(vLog) ==
    /\ vLog # Nil
    /\ vLog.addr = ContractAddress
    /\ Len(vLog.topics) >= 1
    /\ vLog.topics[1] \in EventTypes

\* C19: a log of the contract with a known signature and fewer topics than
\* its schema requires decodes to no event, and no event is sent for it.
C19_ShortTopicsFail ==
    (KnownLog(rawLog) /\ Len(rawLog.topics) < RequiredTopics(rawLog.topics[1])) =>
        NoEvent(decoded["main.go"]) /\ NoEvent(forwarded["main.go"])

\* C20: a log of the contract with a known signature whose data payload does
\* not unpack (for the four events that carry one) decodes to no event, and
\* no event with its payload fields unset is sent on to handleEvent.
C20_PayloadFailureFails ==
    (/\ KnownLog(rawLog)
     /\ rawLog.topics[1] # "ItemCancelled"
     /\ ~rawLog.data.valid) =>
        NoEvent(decoded["main.go"]) /\ NoEvent(forwarded["main.go"])

\* The lookback window of the file whose ScanPastEvents ran.
WindowOf(file) == IF file = "main.go" THEN 10000 ELSE 1000

\* C21: ScanPastEvents queries [F, T]: T is toBlock when given and the head
\* otherwise; F is fromBlock when non-zero, head - WINDOW when fromBlock is
\* zero and head > WINDOW, and 0 when fromBlock is zero and head <= WINDOW;
\* F is never below zero, and with fromBlock zero it is never more than
\* WINDOW blocks behind the head.
C21_ScanRange ==
    scanRange # NotRun =>
        LET W == WindowOf(scanCall.file)
            F == scanRange.from
            T == scanRange.to
        IN  /\ T = (IF scanCall.toBlock # NoBlock THEN scanCall.toBlock
                    ELSE scanCall.cur)
            /\ scanCall.fromBlock # 0 => F = scanCall.fromBlock
            /\ (scanCall.fromBlock = 0 /\ scanCall.cur > W) => F = scanCall.cur - W
            /\ (scanCall.fromBlock = 0 /\ scanCall.cur <= W) => F = 0
            /\ F >= 0
            /\ scanCall.fromBlock = 0 => scanCall.cur - F <= W

\* A default call (fromBlock 0, toBlock nil) of main.go on a chain one block
\* longer than the window has resolved its range.
C21_Witness ==
    /\ scanRange # NotRun
    /\ scanCall.file = "main.go"
    /\ scanCall.fromBlock = 0
    /\ scanCall.toBlock = NoBlock
    /\ scanCall.cur = 10001
    /\ scanRange = [from |-> 1, to |-> 10001]

RECURSIVE DecodableTx(_)
\* The transactions of the logs of the configured contract among logs that
\* decode to an event, in the order of logs.
DecodableTx(logs) ==
    IF logs = <<>> THEN <<>>
    ELSE (IF Head(logs).addr = ContractAddress /\ parseLog(Head(logs)) # Nil
          THEN << <<Head(logs).block, Head(logs).idx>> >> ELSE <<>>)
         \o DecodableTx(Tail(logs))

RECURSIVE HandledTx(_, _)
\* The transactions consumer p has taken from its channel, in order.
HandledTx(p, calls) ==
    IF calls = <<>> THEN <<>>
    ELSE (IF Head(calls).by = p THEN <<Head(calls).tx>> ELSE <<>>)
         \o HandledTx(p, Tail(calls))

\* The transactions of the events the scan goroutine has sent so far.
Yielded ==
    HandledTx("bf", notified) \o [i \in 1..Len(pastEvents) |-> pastEvents[i].txHash]

\* Strictly ascending (block, log index).
Ascending(txs) == \A i, j \in 1..Len(txs) : i < j => TxBefore(txs[i], txs[j])

\* C22: the scan over [F, T] sends the events of the decodable logs of the
\* contract in that range in the node's order (block, then log index), each
\* exactly once and none left out, and closes the channel only after the
\* last one.
C22_BackfillCompleteInOrder ==
    /\ [](pc["sc"] = "send" =>
            /\ pastClosed = 0
            /\ Yielded \o DecodableTx(scanLogs)
                   = DecodableTx(RangeLogs(scanFrom, scanTo))
            /\ Ascending(Yielded))
    /\ [][(pc["sc"] = "send" /\ pastClosed' > pastClosed) =>
            /\ scanLogs = <<>>
            /\ Yielded' = DecodableTx(RangeLogs(scanFrom, scanTo))]_vars

\* A scan over two blocks has sent both of their events and closed the
\* channel.
C22_Witness ==
    /\ pc["sc"] = "done"
    /\ pastClosed = 1
    /\ scanTo = 2
    /\ Len(Yielded) = 2
    /\ Yielded = DecodableTx(RangeLogs(scanFrom, scanTo))

\* The fixed path of each kind of event, under the API prefix.
FixedPath(kind) ==
    CASE kind = "ItemListed" -> "/api/v1/blockchain/item-listed"
      [] kind = "ItemPurchased" -> "/api/v1/blockchain/item-purchased"
      [] kind = "ItemUpdated" -> "/api/v1/blockchain/item-updated"
      [] kind = "ItemCancelled" -> "/api/v1/blockchain/item-cancelled"
      [] kind = "ReceiptConfirmed" -> "/api/v1/blockchain/receipt-confirmed"

\* The text "1000000000000000".
Text1e15 == <<"1">> \o [i \in 1..15 |-> "0"]

\* C23: a call of handleEvent whose first POST is answered with a success
\* has made exactly one POST; every POST of a call goes to the fixed path of
\* the event's kind; and the payload of an ItemListed event with item id 7
\* and price 1000000000000000 has chain_item_id 7 (a number) and price_wei
\* "1000000000000000" (a string).
C23_OnePostToFixedPath ==
    \A p \in Consumers :
        /\ (pc[p] = "handled" /\ result[p] = "ok" /\ att[p] = 0) => posts[p] = 1
        /\ posts[p] > 0 =>
              /\ request[p] # Nil
              /\ ev[p].kind \in EventTypes
              /\ request[p].path = FixedPath(ev[p].kind)
        /\ (/\ ev[p] # Nil
            /\ ev[p].kind = "ItemListed"
            /\ ev[p].ItemId = 7
            /\ ev[p].Price = PriceWei) =>
              /\ request[p].body.chain_item_id = 7
              /\ request[p].body.price_wei = Text1e15

\* The backfill consumer has delivered the ItemListed event of item 7 with
\* its first POST.
C23_Witness ==
    /\ pc["bf"] = "handled" /\ result["bf"] = "ok" /\ posts["bf"] = 1
    /\ att["bf"] = 0
    /\ request["bf"].body.price_wei = Text1e15
    /\ ev["bf"].kind = "ItemListed"
    /\ ev["bf"].ItemId = 7
    /\ ev["bf"].Price = PriceWei
    /\ pc["rl"] = "idle"

\* A base-10 decimal string: one character or more, each of them a digit.
IsDecimalText(text) ==
    /\ Len(text) >= 1
    /\ \A i \in 1..Len(text) :
          text[i] \in {"0", "1", "2", "3", "4", "5", "6", "7", "8", "9"}

\* handleEvent has built a request whose payload has a price_wei field.
CarriesPrice(r) ==
    /\ r # NotRun
    /\ r # Nil
    /\ "price_wei" \in DOMAIN r.body

\* C24: the price_wei of every POST body that has one is a base-10 decimal
\* string, for every event the decoder and the loops of main.go hand to
\* handleEvent.
C24_PriceIsDecimalString ==
    CarriesPrice(handled["main.go"]) =>
        IsDecimalText(handled["main.go"].body.price_wei)

\* The characters of str past a 0x prefix.
HexBody(str) ==
    IF Len(str) >= 2 /\ str[1] = "0" /\ str[2] \in {"x", "X"}
    THEN SubSeq(str, 3, Len(str)) ELSE str

\* str does not parse as hexadecimal: some character is no hex digit.
Unparsable(str) == \E i \in 1..Len(HexBody(str)) : HexVal(HexBody(str)[i]) > 15

\* C25: a call whose hash argument is zero or does not parse is turned down
\* with the invalid-hash error and makes no request to the node, in
\* VerifyTransaction and in CheckPaymentStatus.
C25_BadHashRejectedBeforeCalls ==
    (/\ txCall # Nil
     /\ \/ Unparsable(txCall.txHash)
        \/ IsZeroHash(HexToHash(txCall.txHash))) =>
        /\ txCalls = <<>>
        /\ txPc = "done" => txOut.err = "invalid transaction hash format"

\* TransactionByHash returned a pending transaction.
FoundPending == txFound # Nil /\ txFound.pending

\* C26: once TransactionByHash has returned a pending transaction the call
\* has returned, with no receipt lookup: VerifyTransaction the status
\* "pending" with success false, block number and gas used unset and
\* is_contract_call false, CheckPaymentStatus the status PENDING (not PAID).
C26_PendingReturnsAtOnce ==
    FoundPending =>
        /\ txPc = "done"
        /\ txCalls = <<"TransactionByHash">>
        /\ txReceipt = Nil
        /\ IF IsPaymentCheck(txCall.fn)
           THEN txOut.result = "PENDING"
           ELSE /\ txOut.err = ""
                /\ txOut.result =
                      [TxHash |-> txCall.txHash, Status |-> "pending",
                       Success |-> FALSE, BlockNumber |-> 0, GasUsed |-> 0,
                       IsContractCall |-> FALSE]

\* VerifyTransaction has found a call to the contract pending.
C26_Witness ==
    /\ FoundPending
    /\ txCall.fn = "VerifyTransaction"
    /\ txFound.to = ContractAddress
    /\ txPc = "done"

\* A call of VerifyTransaction (of either file) has returned.
VerifyDone == txCall # Nil /\ ~IsPaymentCheck(txCall.fn) /\ txPc = "done"

\* C27: VerifyTransaction maps the receipt of a mined transaction to the
\* verdict: "success" with success true when the receipt status is 1,
\* "failed" with success false otherwise; in every result success is true
\* exactly when the status is "success"; a receipt fetch error gives an error
\* and no result.
C27_ReceiptStatusMapped ==
    VerifyDone =>
        /\ (txReceipt # Nil /\ txReceipt # RpcError) =>
              /\ txOut.err = ""
              /\ txReceipt.status = 1 =>
                    txOut.result.Status = "success" /\ txOut.result.Success
              /\ txReceipt.status # 1 =>
                    txOut.result.Status = "failed" /\ ~txOut.result.Success
        /\ txOut.result # Nil =>
              (txOut.result.Success <=> txOut.result.Status = "success")
        /\ txReceipt = RpcError => txOut.result = Nil /\ txOut.err # ""

\* VerifyTransaction of src/gateway/contract/gateway.go has returned the
\* verdict of a reverted transaction.
C27_Witness ==
    /\ VerifyDone
    /\ txCall.fn = "gateway_VerifyTransaction"
    /\ txReceipt # Nil /\ txReceipt # RpcError
    /\ txReceipt.status = 0
    /\ txOut.result.Status = "failed"

\* The values that are at least the expected amount.
EnoughWei == {PriceWei, BigInt(<<1>> \o [i \in 1..14 |-> 0] \o <<1>>)}

\* A call of CheckPaymentStatus has returned.
PaymentDone == txCall # Nil /\ IsPaymentCheck(txCall.fn) /\ txPc = "done"

\* The receipt of the transaction was fetched and reports a success.
Succeeded == txReceipt # Nil /\ txReceipt # RpcError /\ txReceipt.status = 1

\* C28: CheckPaymentStatus returns PAID exactly when the hash is not zero,
\* the transaction is found and not pending, its receipt reports a success,
\* its value is at least the expected amount and its target is the expected
\* recipient; any other verdict on a mined transaction is a failure with its
\* own reason, an amount below the expected one being reported as such even
\* though the transaction succeeded and went to the right address.
C28_PaidExactlyWhenVerified ==
    PaymentDone =>
        /\ txOut.result = "PAID" <=>
              /\ ~IsZeroHash(HexToHash(txCall.txHash))
              /\ txFound # Nil
              /\ ~txFound.pending
              /\ Succeeded
              /\ txFound.value \in EnoughWei
              /\ txFound.to = txCall.expectedAddr
        /\ txOut.result = "PAID" => txOut.err = ""
        /\ txOut.result # "PAID" => txOut.err # ""
        /\ (txReceipt # Nil /\ txReceipt # RpcError) =>
              /\ txReceipt.status # 1 =>
                    txOut.err = "transaction failed on chain (reverted)"
              /\ (Succeeded /\ txFound.value \notin EnoughWei) =>
                    txOut.err = "insufficient payment amount"
              /\ (Succeeded /\ txFound.value \in EnoughWei
                     /\ txFound.to = NoAddress) =>
                    txOut.err = "transaction is not a transfer to a valid address"
              /\ (Succeeded /\ txFound.value \in EnoughWei
                     /\ txFound.to \notin {NoAddress, txCall.expectedAddr}) =>
                    txOut.err = "transaction sent to wrong recipient address"

\* A transaction that succeeded on chain and sends one wei less than the
\* expected amount to the expected recipient was turned down.
C28_Witness ==
    /\ PaymentDone
    /\ Succeeded
    /\ txFound.to = txCall.expectedAddr
    /\ txFound.value = BigInt([i \in 1..15 |-> 9])
    /\ txOut.err = "insufficient payment amount"

\* The listener is inside a call of SubscribeEvents.
Subscribing == pc["rl"] \in {"health", "subscribe"}

\* The channel of the live session was closed and the listener has not left
\* its range loop yet.
LiveChannelClosed ==
    /\ eventClosed > 0
    /\ pc["rl"] \in {"range", "post", "sleep", "handled"}

\* SubscribeEvents returned an error, or the range loop ended on the closed
\* channel: the listener waits out its backoff delay.
InBackoff == pc["rl"] \in {"backoffErr", "backoffClosed"}

\* C29: while ctx is not cancelled startRealtimeListener does not return,
\* and whenever the live channel is closed or SubscribeEvents fails the
\* listener gets to call SubscribeEvents again.
C29_ReconnectsForever ==
    /\ [](pc["rl"] = "returned" => cancelled)
    /\ LiveChannelClosed ~> (Subscribing \/ cancelled)
    /\ InBackoff ~> (Subscribing \/ cancelled)

\* After a closed live channel and three failed connectivity checks the
\* listener is calling SubscribeEvents once more.
C29_Witness ==
    /\ ~cancelled
    /\ pc["rl"] = "health"
    /\ eventClosed > 0
    /\ failures = 4
    /\ lastWait = 40

\* SubscribeEvents returns after a connectivity check that passed.
SubscribeReturns == pc["rl"] = "subscribe" /\ pc'["rl"] # "subscribe"

\* C30: after a connectivity check that passed SubscribeEvents reports no
\* error whether SubscribeFilterLogs works or not; when it falls back to
\* polling it returns an open channel and starts pollEvents with its cursor at
\* the head the check saw, the listener resets its delay as for any
\* successful connect, and the first range polled begins one block past that
\* head.
C30_PollingFallback ==
    /\ [][SubscribeReturns =>
            /\ pc'["rl"] = "range"
            /\ eventClosed' = 0
            /\ eventChan' = <<>>
            /\ retryDelay' = 5
            /\ failures' = 0
            /\ mode' \in {"ws", "poll"}
            /\ mode' = "poll" =>
                  /\ pc'["pr"] = "wait"
                  /\ startBlock' = header
                  /\ lastProcessedBlock' = header]_vars
    /\ [][(/\ mode = "poll" /\ pc["pr"] = "filter" /\ pc'["pr"] = "send"
            /\ lastProcessedBlock = startBlock) =>
            pollLogs' = RangeLogs(startBlock + 1, currentBlock)]_vars

\* A polling session started at head 2 after a wait of 10 s has fetched its
\* first range, block 3.
C30_Witness ==
    /\ mode = "poll"
    /\ pc["rl"] = "range"
    /\ pc["pr"] = "send"
    /\ startBlock = 2
    /\ lastProcessedBlock = 2
    /\ currentBlock = 3
    /\ lastWait = 10
    /\ retryDelay = 5

\* No event comes of a log: it is of another contract, has no topics or its
\* topic 0 is no signature of the ABI.
NoEventFor(vLog) == vLog.addr # ContractAddress \/ parseLog(vLog) = Nil

\* A loop takes the first entry off queue q, which becomes r.
Takes(q, r) == q # <<>> /\ r = Tail(q)

\* C31: a log entry that yields no event is skipped by the scan loop, the
\* WebSocket forwarder and the polling loop: the loop goes on, the channel
\* is neither closed nor sent on, and an entry that yields an event is sent
\* whatever was skipped before it.
C31_UndecodableLogSkipped ==
    /\ [][(/\ pc["sc"] = "send" /\ Takes(scanLogs, scanLogs')
            /\ NoEventFor(Head(scanLogs))) =>
              /\ pc'["sc"] = "send"
              /\ pastClosed' = pastClosed
              /\ pastEvents' = pastEvents]_vars
    /\ [][(/\ mode = "ws" /\ pc["pr"] = "select" /\ Takes(wsLogs, wsLogs')
            /\ Len(wsLogs) >= 2
            /\ NoEventFor(Head(wsLogs))) =>
              /\ pc'["pr"] = "select"
              /\ subActive'
              /\ eventClosed' = eventClosed
              /\ eventChan' = eventChan]_vars
    /\ [][(/\ mode = "poll" /\ pc["pr"] = "send" /\ Takes(pollLogs, pollLogs')
            /\ Len(pollLogs) >= 2
            /\ NoEventFor(Head(pollLogs))) =>
              /\ pc'["pr"] = "send"
              /\ eventClosed' = eventClosed
              /\ eventChan' = eventChan]_vars
    /\ [][(/\ pc["sc"] = "send" /\ Takes(scanLogs, scanLogs')
            /\ ~NoEventFor(Head(scanLogs))) =>
              pastEvents' = Append(pastEvents, parseLog(Head(scanLogs)))]_vars
    /\ [][(/\ mode = "ws" /\ pc["pr"] = "select" /\ Takes(wsLogs, wsLogs')
            /\ pc'["pr"] = "select"
            /\ ~NoEventFor(Head(wsLogs))) =>
              eventChan' = Append(eventChan, parseLog(Head(wsLogs)))]_vars
    /\ [][(/\ mode = "poll" /\ pc["pr"] = "send" /\ Takes(pollLogs, pollLogs')
            /\ pc'["pr"] = "send"
            /\ ~NoEventFor(Head(pollLogs))) =>
              eventChan' = Append(eventChan, parseLog(Head(pollLogs)))]_vars

\* The WebSocket forwarder has gone through a block that holds a log of
\* another contract, one with an unknown topic 0 and one without topics, and
\* has sent the event of the log that follows them.
C31_Witness ==
    /\ mode = "ws"
    /\ pc["pr"] = "select"
    /\ eventClosed = 0
    /\ wsLogs = <<>>
    /\ Len(eventChan) = 1
    /\ eventChan[1].kind = "ItemPurchased"
    /\ eventChan[1].txHash[2] = 4

\* C32: StartEventListener returns nil, and returns without waiting for the
\* scan, the delivery of the past events or the subscription: as long as it
\* has not returned it can, wherever its goroutines are, and it does
\* although none of them is ever scheduled.
C32_StartReturnsNil ==
    /\ [](startPc = "returned" => startErr = "nil")
    /\ [](startPc = "log" => ENABLED SEL_Return)
    /\ (startPc = "log") ~> (startPc = "returned")

\* StartEventListener has returned nil although the scan failed on the node
\* and the connectivity check of SubscribeEvents failed too.
C32_Witness ==
    /\ startPc = "returned"
    /\ startErr = "nil"
    /\ pastClosed = 1
    /\ scanTo = NoBlock
    /\ pc["rl"] = "backoffErr"
    /\ failures >= 1

\* Both goroutines of the orchestrator have returned.
OrchestratorReturned == pc["bf"] = "done" /\ pc["rl"] = "returned"

\* C33: once ctx is cancelled, the goroutine of StartEventListener and
\* startRealtimeListener both return in the end, whatever the live session
\* and wherever the cancellation finds them.
C33_CancelTerminates == cancelled ~> OrchestratorReturned

\* VerifyTransaction has returned a result for a mined transaction.
VerifiedMined ==
    /\ VerifyDone
    /\ txOut.result # Nil
    /\ txOut.result.Status \in {"success", "failed"}

\* C34: in a result of VerifyTransaction for a mined transaction,
\* IsContractCall is true exactly when the transaction has a target and the
\* target is the contract's address: false for a contract creation and for
\* any other target, whatever the receipt's status.
C34_IsContractCall ==
    VerifiedMined =>
        /\ txOut.result.IsContractCall <=> txFound.to = ContractAddress
        /\ txFound.to = NoAddress => ~txOut.result.IsContractCall
        /\ txFound.to \in {CollectAddress, OtherAddress} =>
              ~txOut.result.IsContractCall

\* VerifyTransaction has reported a reverted call of the contract.
C34_Witness ==
    /\ VerifiedMined
    /\ txCall.fn = "VerifyTransaction"
    /\ txFound.to = ContractAddress
    /\ txOut.result.IsContractCall
    /\ txOut.result.Status = "failed"

\* C35: in every state of startRealtimeListener the backoff delay lies
\* between the floor and the ceiling, 5 s and 60 s, and so does every delay
\* it has waited out.
C35_DelayWithinBounds ==
    /\ InitialRetryDelay = 5 /\ maxRetryDelay = 60
    /\ InitialRetryDelay <= retryDelay /\ retryDelay <= maxRetryDelay
    /\ lastWait # 0 =>
          InitialRetryDelay <= lastWait /\ lastWait <= maxRetryDelay

\* The listener has waited out the ceiling and its delay stays there after
\* one more failure.
C35_Witness ==
    /\ pc["rl"] \in {"backoffErr", "backoffClosed"}
    /\ lastWait = maxRetryDelay
    /\ retryDelay = maxRetryDelay
    /\ failures >= 5

\* A status code that is neither 2xx nor 4xx.
OtherStatus(code) ==
    /\ code # NetErr /\ code # NoCode
    /\ ~(code >= 200 /\ code < 300)
    /\ ~(code >= 400 /\ code < 500)

\* notifyBackend has returned in consumer p.
NotifyReturned(p) == result[p] \in {"ok", "permanent", "exhausted"}

\* C36: one notifyBackend call makes at most 3 POSTs, at least 1 before it
\* returns, and it does return whatever the backend answers; after an answer
\* that is neither 2xx nor 4xx (1xx, 3xx, 5xx) the call goes on to the next
\* attempt while fewer than 3 were made, and returns its "failed after 3
\* retries" error at the third.
C36_NotifyAttemptsBounded ==
    /\ [](\A p \in Consumers :
            /\ posts[p] <= 3
            /\ NotifyReturned(p) => pc[p] = "handled" /\ posts[p] >= 1
            /\ (pc[p] \in {"sleep", "handled"} /\ OtherStatus(lastCode[p])) =>
                  IF posts[p] < 3
                  THEN pc[p] = "sleep" /\ result[p] = "none"
                  ELSE pc[p] = "handled" /\ result[p] = "exhausted")
    /\ (pc["bf"] \in {"post", "sleep"}) ~> NotifyReturned("bf")

\* A call that was answered 1xx at its third POST has returned the error of
\* the exhausted retries, after sleeping 1 s and 2 s.
C36_Witness ==
    /\ pc["bf"] = "handled"
    /\ result["bf"] = "exhausted"
    /\ posts["bf"] = 3
    /\ lastCode["bf"] = 101
    /\ waits["bf"] = <<1, 2>>

\* Each range of qs starts one block after the end of the range before it,
\* the first one block after start, and none is empty.
Contiguous(qs, start) ==
    \A i \in 1..Len(qs) :
        /\ qs[i].from = (IF i = 1 THEN start ELSE qs[i - 1].to) + 1
        /\ qs[i].from <= qs[i].to

\* The blocks the ranges of qs cover.
Covered(qs) == UNION { qs[i].from..qs[i].to : i \in 1..Len(qs) }

\* C37: within one polling loop each FilterLogs range starts one block after
\* the end of the range before it (the first one after startBlock) and is
\* not empty, so a query is made only for a head past the cursor; the ranges
\* asked for so far cover exactly the blocks after startBlock up to the
\* cursor (up to the tick's head while the tick goes through its logs); and
\* the cursor moves only at the end of a tick that made a query, to that
\* tick's head.
C37_PollRangesContiguous ==
    /\ [](PollerRunning =>
            /\ Contiguous(queries, startBlock)
            /\ Covered(queries) =
                  (startBlock + 1)..(IF pc["pr"] = "send" THEN currentBlock
                                     ELSE lastProcessedBlock)
            /\ pc["pr"] = "filter" => currentBlock > lastProcessedBlock)
    /\ [][(PollerRunning /\ PollerRunning'
            /\ lastProcessedBlock' # lastProcessedBlock) =>
              /\ pc["pr"] \in {"filter", "send"}
              /\ queries' # <<>>
              /\ lastProcessedBlock' = queries'[Len(queries')].to]_vars

\* A polling loop that started at block 1 has made two queries, for block 2
\* and then for block 3, and its cursor stands at block 3.
C37_Witness ==
    /\ PollerRunning
    /\ pc["pr"] = "wait"
    /\ startBlock = 1
    /\ queries = <<[from |-> 2, to |-> 2], [from |-> 3, to |-> 3]>>
    /\ lastProcessedBlock = 3
    /\ head = 3

\* ConfirmPayment has returned.
ConfirmDone == cpPc = "done"

\* C38: ConfirmPayment returns an order only with status PAID and a nil
\* error. When the product lookup fails, or CheckPaymentStatus reports
\* anything but PAID, it returns an error and no order; CheckPaymentStatus is
\* not called after a failed lookup.
C38_OnlyPaidOrderReturned ==
    ConfirmDone =>
        /\ cpOut.order # Nil =>
              /\ cpOut.err = ""
              /\ cpOut.order.Status = StatusPaid
              /\ txPc = "done" /\ txOut.result = StatusPaid
        /\ cpOut.order = Nil => cpOut.err # ""
        /\ cpPrice.err # "" =>
              /\ cpOut.order = Nil
              /\ cpOut.err = "failed to get product: " \o cpPrice.err
              /\ txCall = Nil
        /\ (txPc = "done" /\ txOut.result # StatusPaid) =>
              /\ cpOut.order = Nil
              /\ cpOut.err = "payment verification failed: " \o txOut.err

\* ConfirmPayment has returned an error and no order for a transaction that
\* CheckPaymentStatus reported as pending.
C38_Witness ==
    /\ ConfirmDone
    /\ txPc = "done"
    /\ txOut.result = StatusPending
    /\ cpOut.order = Nil
    /\ cpOut.err = "payment verification failed: transaction is still pending"

\* C39: the channel of one SubscribeEvents call and the channel of
\* ScanPastEvents are each closed at most once, a goroutine that has closed
\* its channel has ended, and no step sends on a channel that was closed,
\* whichever way the goroutine ends (cancellation, subscription error, closed
\* logs channel, failed header fetch, recovered panic, end of the scan).
C39_ClosedOnceNoSendAfter ==
    /\ [](/\ eventClosed <= 1
          /\ pastClosed <= 1
          /\ eventClosed = 1 => pc["pr"] = "done"
          /\ pastClosed = 1 => pc["sc"] = "done")
    /\ [][Len(eventChan') > Len(eventChan) =>
              eventClosed = 0 /\ eventClosed' = 0]_vars
    /\ [][Len(pastEvents') > Len(pastEvents) =>
              pastClosed = 0 /\ pastClosed' = 0]_vars

\* A polling session has sent an event and then closed its channel, once,
\* with the event still in it; the channel of the scan was closed once too.
C39_Witness ==
    /\ mode = "poll"
    /\ pc["pr"] = "done"
    /\ eventClosed = 1
    /\ eventChan # <<>>
    /\ pastClosed = 1
    /\ ~cancelled

====
